---------------------------- MODULE Spec2Model ----------------------------
(***************************************************************************)
(* Behaviour Monitor: the statistical Pattern Store and detector           *)
(* (analyzer.py), the streaming ML analyzer and correlation miner          *)
(* (ml_analyzer.py) and the coordinator's decision policy                  *)
(* (coordinator.py), as one state machine.                                 *)
(*                                                                         *)
(* Time.  An instant is a number of seconds since a Monday 00:00 UTC.  A   *)
(* datetime object is a record [t |-> instant, off |-> utc offset]: two    *)
(* aware datetimes compare and subtract by instant, while weekday, hour,   *)
(* minute and date are read from the wall clock t + off.                   *)
(*                                                                         *)
(* Numbers.  Floats are modelled by exact rationals [n, d] (d > 0, lowest  *)
(* terms).  A standard deviation and a z-score are square roots of         *)
(* rationals; they are carried by their squares (both are >= 0, so every   *)
(* comparison the code makes is decided exactly on the squares).           *)
(***************************************************************************)
EXTENDS Integers, Sequences, FiniteSets, TLC

(***************************************************************************)
(* Program constants                                                       *)
(***************************************************************************)
INTERVALS_PER_DAY == 96
MINUTES_PER_INTERVAL == 15
DAYS_IN_WEEK == 7
DAY_NAMES == <<"monday", "tuesday", "wednesday", "thursday", "friday", "saturday", "sunday">>
MIN_SAMPLES_FOR_ML == 100
SECONDS_PER_DAY == 86400

(* None of an optional string; NoneDT of an optional datetime or date *)
None == "None"
NoneDT == << >>

(***************************************************************************)
(* Exact rationals                                                         *)
(***************************************************************************)
Abs(x) == IF x < 0 THEN -x ELSE x
Min(a, b) == IF a <= b THEN a ELSE b
Max(a, b) == IF a >= b THEN a ELSE b

RECURSIVE GCD(_, _)
GCD(a, b) == IF b = 0 THEN a ELSE GCD(b, a % b)

Rat(n, d) ==
    LET s == IF d < 0 THEN -1 ELSE 1
        g == GCD(Abs(n), Abs(d))
    IN  [n |-> (s * n) \div g, d |-> (s * d) \div g]
RInt(k) == [n |-> k, d |-> 1]
RZero == RInt(0)
RAdd(x, y) == IF y.n = 0 THEN x ELSE IF x.n = 0 THEN y
              ELSE Rat(x.n * y.d + y.n * x.d, x.d * y.d)
RSub(x, y) == Rat(x.n * y.d - y.n * x.d, x.d * y.d)
RMul(x, y) == Rat(x.n * y.n, x.d * y.d)
RDiv(x, y) == Rat(x.n * y.d, x.d * y.n)
RLt(x, y) == x.n * y.d < y.n * x.d
RLe(x, y) == x.n * y.d <= y.n * x.d
REq(x, y) == x.n * y.d = y.n * x.d
RMin(x, y) == IF RLe(x, y) THEN x ELSE y
RMax(x, y) == IF RLe(y, x) THEN x ELSE y

(***************************************************************************)
(* datetime                                                                *)
(***************************************************************************)
DateTime(t, off) == [t |-> t, off |-> off]
Wall(ts) == ts.t + ts.off
Weekday(ts) == (Wall(ts) \div SECONDS_PER_DAY) % DAYS_IN_WEEK
DateOf(ts) == Wall(ts) \div SECONDS_PER_DAY
MinutesSinceMidnight(ts) == (Wall(ts) % SECONDS_PER_DAY) \div 60
(* timedelta.days of (a - b): the floor of the difference in days *)
DaysBetween(a, b) == (a.t - b.t) \div SECONDS_PER_DAY
NowUtc(clock) == DateTime(clock, 0)

(* an isoformat that writes the wall clock without its offset *)
IsoFormatWallOnly(ts) ==
    [date |-> Wall(ts) \div SECONDS_PER_DAY,
     time |-> Wall(ts) % SECONDS_PER_DAY,
     offset |-> 0]

(* datetime.isoformat(): the wall-clock date and time followed by the offset *)
IsoFormat(ts) ==
    [date |-> Wall(ts) \div SECONDS_PER_DAY,
     time |-> Wall(ts) % SECONDS_PER_DAY,
     offset |-> ts.off]
(* datetime.fromisoformat() of a string that carries an offset *)
FromIsoFormat(s) ==
    DateTime(s.date * SECONDS_PER_DAY + s.time - s.offset, s.offset)
IsoOrNone(ts) == IF ts = NoneDT THEN NoneDT ELSE IsoFormat(ts)
FromIsoOrNone(s) == IF s = NoneDT THEN NoneDT ELSE FromIsoFormat(s)

(***************************************************************************)
(* analyzer.py: TimeBucket                                                 *)
(***************************************************************************)
TimeBucket == [count |-> 0, sum_values |-> 0, sum_squared |-> 0]

mean(b) == IF b.count = 0 THEN RZero ELSE Rat(b.sum_values, b.count)

(* std_dev ** 2: 0 below two observations, else max(0, variance) *)
std_dev_sq(b) ==
    IF b.count < 2 THEN RZero
    ELSE RMax(RZero, RSub(Rat(b.sum_squared, b.count), RMul(mean(b), mean(b))))

(* an add_observation that leaves sum_squared as it is *)
AddObservationSumOnly(b, value) ==
    [count |-> b.count + 1,
     sum_values |-> b.sum_values + value,
     sum_squared |-> b.sum_squared]

add_observation(b, value) ==
    [count |-> b.count + 1,
     sum_values |-> b.sum_values + value,
     sum_squared |-> b.sum_squared + value * value]

(* an index taken from the nearest slot boundary *)
NearestIntervalIndex(ts) == (MinutesSinceMidnight(ts) + 7) \div MINUTES_PER_INTERVAL

_get_interval_index(ts) == MinutesSinceMidnight(ts) \div MINUTES_PER_INTERVAL

_interval_to_time_str(interval) ==
    LET minutes == interval * MINUTES_PER_INTERVAL
    IN  [hours |-> minutes \div 60, mins |-> minutes % 60]

(***************************************************************************)
(* analyzer.py: EntityPattern                                              *)
(***************************************************************************)
(* a function, given by a rule, as the table of its values *)
Table(f) == f @@ << >>

(* TLC evaluates the arguments of an operator on demand, which nests the steps  *)
(* of a long loop; the test is TRUE and makes it evaluate v where it is written *)
Evaluated(v) == v = v

EmptyDay == SubSeq([i \in 1..INTERVALS_PER_DAY |-> TimeBucket], 1, INTERVALS_PER_DAY)

EntityPattern(entity_id) ==
    [entity_id |-> entity_id,
     day_buckets |-> Table([day \in 0..(DAYS_IN_WEEK - 1) |-> EmptyDay]),
     total_observations |-> 0,
     first_observation |-> NoneDT,
     last_observation |-> NoneDT]

(* the bucket of a timestamp; Python lists are 0-based, sequences 1-based *)
BucketAt(pattern, ts) == pattern.day_buckets[Weekday(ts)][_get_interval_index(ts) + 1]

(* a record_activity that sets first_observation on every call *)
RecordActivityResetsFirst(pattern, ts) ==
    [pattern EXCEPT
        !.day_buckets[Weekday(ts)][_get_interval_index(ts) + 1] = add_observation(@, 1),
        !.total_observations = @ + 1,
        !.first_observation = ts,
        !.last_observation = ts]

record_activity(pattern, ts) ==
    LET day_of_week == Weekday(ts)
        interval == _get_interval_index(ts)
    IN  [pattern EXCEPT
            !.day_buckets[day_of_week][interval + 1] = add_observation(@, 1),
            !.total_observations = @ + 1,
            !.first_observation = IF @ = NoneDT THEN ts ELSE @,
            !.last_observation = ts]

get_expected_activity(pattern, ts) ==
    [mean |-> mean(BucketAt(pattern, ts)), std_sq |-> std_dev_sq(BucketAt(pattern, ts))]

get_time_description(ts) ==
    [day_name |-> DAY_NAMES[Weekday(ts) + 1],
     time_str |-> _interval_to_time_str(_get_interval_index(ts))]

(***************************************************************************)
(* Python dicts read with .get(key, 0), and updated                        *)
(***************************************************************************)
EmptyDict == << >>
DictGet(f, k) == IF k \in DOMAIN f THEN f[k] ELSE 0
DictSet(f, k, v) == (k :> v) @@ f

RECURSIVE SumRange(_, _, _)
(* bucket.mean summed over buckets[lo .. hi] *)
SumRange(buckets, lo, hi) ==
    IF lo > hi THEN RZero
    ELSE IF lo = hi THEN mean(buckets[lo])
    ELSE LET mid == (lo + hi) \div 2
         IN  RAdd(SumRange(buckets, lo, mid), SumRange(buckets, mid + 1, hi))

(* bucket.mean summed over the first k buckets of a day *)
SumMeans(buckets, k) == SumRange(buckets, 1, k)

(***************************************************************************)
(* z-scores: [inf |-> is float("inf"), sq |-> z ** 2]                      *)
(***************************************************************************)
ZInf == [inf |-> TRUE, sq |-> RZero]
ZOf(r) == [inf |-> FALSE, sq |-> RMul(r, r)]
ZSq(sq) == [inf |-> FALSE, sq |-> sq]
(* z > r, z >= r and z < r for a rational r >= 0 *)
ZGt(z, r) == z.inf \/ RLt(RMul(r, r), z.sq)
ZGe(z, r) == z.inf \/ RLe(RMul(r, r), z.sq)
ZLt(z, r) == ~ZGe(z, r)

SEVERITY_NORMAL == "normal"
SEVERITY_MINOR == "minor"
SEVERITY_MODERATE == "moderate"
SEVERITY_SIGNIFICANT == "significant"
SEVERITY_CRITICAL == "critical"
SEVERITY_THRESHOLDS ==
    [minor |-> Rat(3, 2), moderate |-> Rat(5, 2), significant |-> Rat(7, 2), critical |-> Rat(9, 2)]

WELFARE_OK == "ok"
WELFARE_CHECK == "check_recommended"
WELFARE_CONCERN == "concern"
WELFARE_ALERT == "alert"

(* the bands with every boundary value in the lower band *)
SeverityAbove(z_score) ==
    IF ZGt(z_score, SEVERITY_THRESHOLDS[SEVERITY_CRITICAL]) THEN SEVERITY_CRITICAL
    ELSE IF ZGt(z_score, SEVERITY_THRESHOLDS[SEVERITY_SIGNIFICANT]) THEN SEVERITY_SIGNIFICANT
    ELSE IF ZGt(z_score, SEVERITY_THRESHOLDS[SEVERITY_MODERATE]) THEN SEVERITY_MODERATE
    ELSE IF ZGt(z_score, SEVERITY_THRESHOLDS[SEVERITY_MINOR]) THEN SEVERITY_MINOR
    ELSE SEVERITY_NORMAL

_get_severity(z_score) ==
    IF ZGe(z_score, SEVERITY_THRESHOLDS[SEVERITY_CRITICAL]) THEN SEVERITY_CRITICAL
    ELSE IF ZGe(z_score, SEVERITY_THRESHOLDS[SEVERITY_SIGNIFICANT]) THEN SEVERITY_SIGNIFICANT
    ELSE IF ZGe(z_score, SEVERITY_THRESHOLDS[SEVERITY_MODERATE]) THEN SEVERITY_MODERATE
    ELSE IF ZGe(z_score, SEVERITY_THRESHOLDS[SEVERITY_MINOR]) THEN SEVERITY_MINOR
    ELSE SEVERITY_NORMAL

(***************************************************************************)
(* analyzer.py: PatternAnalyzer                                            *)
(* _patterns is a Python dict: entity ids are unique and iteration is in   *)
(* insertion order, so it is a sequence of EntityPattern records.          *)
(***************************************************************************)
PatternAnalyzer(sensitivity_threshold, learning_period_days) ==
    [sensitivity_threshold |-> sensitivity_threshold,
     learning_period_days |-> learning_period_days,
     patterns |-> << >>,
     daily_counts |-> EmptyDict,
     daily_count_date |-> NoneDT,
     current_interval_activity |-> EmptyDict,
     current_interval |-> -1,
     current_interval_day |-> -1]

PatternIds(an) == {an.patterns[i].entity_id : i \in DOMAIN an.patterns}
PatternIndex(an, entity_id) ==
    CHOOSE i \in DOMAIN an.patterns : an.patterns[i].entity_id = entity_id

(* the analyzer with the entity's pattern created when absent *)
get_pattern(an, entity_id) ==
    IF entity_id \in PatternIds(an) THEN an
    ELSE [an EXCEPT !.patterns = Append(@, EntityPattern(entity_id))]

record_state_change(an, entity_id, ts) ==
    LET a1 == get_pattern(an, entity_id)
        i == PatternIndex(a1, entity_id)
        today == <<DateOf(ts)>>
        newDay == a1.daily_count_date = NoneDT \/ a1.daily_count_date # today
        counts == IF newDay THEN EmptyDict ELSE a1.daily_counts
        current_interval == _get_interval_index(ts)
        current_day == Weekday(ts)
        newSlot == current_interval # a1.current_interval \/ current_day # a1.current_interval_day
        activity == IF newSlot THEN EmptyDict ELSE a1.current_interval_activity
    IN  [a1 EXCEPT
            !.patterns[i] = record_activity(@, ts),
            !.daily_counts = DictSet(counts, entity_id, DictGet(counts, entity_id) + 1),
            !.daily_count_date = today,
            !.current_interval = current_interval,
            !.current_interval_day = current_day,
            !.current_interval_activity =
                DictSet(activity, entity_id, DictGet(activity, entity_id) + 1)]

get_current_interval_activity(an, clock) ==
    LET now == NowUtc(clock)
    IN  IF _get_interval_index(now) # an.current_interval
           \/ Weekday(now) # an.current_interval_day
        THEN EmptyDict
        ELSE an.current_interval_activity

get_daily_count(an, entity_id, clock) ==
    IF an.daily_count_date # <<DateOf(NowUtc(clock))>> THEN 0
    ELSE DictGet(an.daily_counts, entity_id)

get_total_daily_count(an, clock) ==
    IF an.daily_count_date # <<DateOf(NowUtc(clock))>> THEN 0
    ELSE LET ks == DOMAIN an.daily_counts
             RECURSIVE Total(_)
             Total(S) == IF S = {} THEN 0
                         ELSE LET k == CHOOSE x \in S : TRUE
                              IN  an.daily_counts[k] + Total(S \ {k})
         IN  Total(ks)

(* the pattern with the earliest first_observation, NoneDT when there is none *)
MinFirstObservation(an) ==
    LET firsts == {an.patterns[i].first_observation : i \in DOMAIN an.patterns} \ {NoneDT}
    IN  IF firsts = {} THEN NoneDT
        ELSE CHOOSE f \in firsts : \A g \in firsts : f.t <= g.t

(* a percentage, as a rational *)
get_confidence(an, clock) ==
    IF an.patterns = << >> THEN RZero
    ELSE IF MinFirstObservation(an) = NoneDT THEN RZero
    ELSE LET days_of_data == DaysBetween(NowUtc(clock), MinFirstObservation(an))
         IN  RMin(RInt(100), RMul(Rat(days_of_data, an.learning_period_days), RInt(100)))

is_learning_complete(an, clock) == RLe(RInt(100), get_confidence(an, clock))

(***************************************************************************)
(* analyzer.py: the statistical detector                                   *)
(***************************************************************************)
(* the z-score with the threshold itself, not one above it, for a count of 0 *)
DetectorZAtThreshold(an, expected, actual) ==
    IF RLt(RZero, expected.std_sq)
    THEN ZSq(RDiv(RMul(RSub(RInt(actual), expected.mean), RSub(RInt(actual), expected.mean)),
                  expected.std_sq))
    ELSE IF ~REq(RInt(actual), expected.mean)
    THEN IF actual > 0 THEN ZInf ELSE ZOf(RInt(an.sensitivity_threshold))
    ELSE ZOf(RZero)

(* the z-score of lines 386-393 *)
DetectorZ(an, expected, actual) ==
    IF RLt(RZero, expected.std_sq)
    THEN ZSq(RDiv(RMul(RSub(RInt(actual), expected.mean), RSub(RInt(actual), expected.mean)),
                  expected.std_sq))
    ELSE IF ~REq(RInt(actual), expected.mean)
    THEN IF actual > 0 THEN ZInf ELSE ZOf(RInt(an.sensitivity_threshold + 1))
    ELSE ZOf(RZero)

(* the threshold test with >= for > *)
ReachesThreshold(an, z_score) == ZGe(z_score, RInt(an.sensitivity_threshold))

(* the anomaly threshold test of line 396 *)
ExceedsThreshold(an, z_score) == ZGt(z_score, RInt(an.sensitivity_threshold))

(* lines 395-424: << >> or the AnomalyResult of a z-score *)
Judge(an, entity_id, expected, actual, z_score, now) ==
    IF ExceedsThreshold(an, z_score)
    THEN << [is_anomaly |-> TRUE,
             entity_id |-> entity_id,
             anomaly_type |-> IF RLt(expected.mean, RInt(actual))
                              THEN "unusual_activity" ELSE "unusual_inactivity",
             z_score |-> z_score,
             expected_mean |-> expected.mean,
             expected_std_sq |-> expected.std_sq,
             actual_value |-> actual,
             timestamp |-> now,
             time_slot |-> get_time_description(now),
             severity |-> _get_severity(z_score)] >>
    ELSE << >>

(* lines 378-424 for one entity, given what lines 378-379 read *)
CheckExpected(an, entity_id, expected, actual, now) ==
    IF expected.std_sq.n = 0 /\ expected.mean.n = 0 THEN << >>
    ELSE Judge(an, entity_id, expected, actual, DetectorZ(an, expected, actual), now)

(* one iteration of the loop of lines 377-424: << >> or one AnomalyResult *)
CheckEntity(an, pattern, activity, now) ==
    CheckExpected(an, pattern.entity_id, get_expected_activity(pattern, now),
                  DictGet(activity, pattern.entity_id), now)

RECURSIVE CheckLoop(_, _, _, _)
CheckLoop(an, activity, now, k) ==
    IF k = 0 THEN << >>
    ELSE CheckLoop(an, activity, now, k - 1) \o CheckEntity(an, an.patterns[k], activity, now)

(* check_for_anomalies without the test of lines 368-369 *)
CheckWhileLearning(an, clock, current_interval_activity) ==
    CheckLoop(an,
              IF current_interval_activity = NoneDT
              THEN get_current_interval_activity(an, clock)
              ELSE current_interval_activity[1],
              NowUtc(clock), Len(an.patterns))

(* current_interval_activity: NoneDT (the default None) or <<dict>> *)
check_for_anomalies(an, clock, current_interval_activity) ==
    IF ~is_learning_complete(an, clock) THEN << >>
    ELSE LET activity == IF current_interval_activity = NoneDT
                         THEN get_current_interval_activity(an, clock)
                         ELSE current_interval_activity[1]
         IN  CheckLoop(an, activity, NowUtc(clock), Len(an.patterns))

(***************************************************************************)
(* analyzer.py: elder-care metrics                                         *)
(***************************************************************************)
get_last_activity_time(an) ==
    LET lasts == {an.patterns[i].last_observation : i \in DOMAIN an.patterns} \ {NoneDT}
    IN  IF lasts = {} THEN NoneDT
        ELSE CHOOSE l \in lasts : \A m \in lasts : l.t >= m.t

RECURSIVE TotalRate(_, _, _)
(* lines 454-464: the expected activities of today over the first k patterns *)
TotalRate(an, day_of_week, k) ==
    IF k = 0 THEN RZero
    ELSE LET daily_expected ==
                 SumMeans(an.patterns[k].day_buckets[day_of_week], INTERVALS_PER_DAY)
         IN  RAdd(TotalRate(an, day_of_week, k - 1),
                  IF RLt(RZero, daily_expected) THEN daily_expected ELSE RZero)

(* entity_id None: across all entities.  Seconds, as a rational *)
(* lines 466-470 *)
IntervalOfRate(total_rate) ==
    IF total_rate.n = 0 THEN RZero ELSE RDiv(RInt(SECONDS_PER_DAY), total_rate)

get_typical_interval(an, clock) ==
    IF an.patterns = << >> THEN RZero
    ELSE IntervalOfRate(TotalRate(an, Weekday(NowUtc(clock)), Len(an.patterns)))

(* lines 500-518 *)
ActivityContext(time_since, typical_interval, concern_level) ==
    [time_since_seconds |-> <<time_since>>,
     typical_interval_seconds |-> typical_interval,
     status |-> IF RLt(concern_level, Rat(3, 2)) THEN "normal"
                ELSE IF RLt(concern_level, Rat(5, 2)) THEN "check_recommended"
                ELSE IF RLt(concern_level, RInt(4)) THEN "concern"
                ELSE "alert",
     concern_level |-> concern_level]

(* lines 490-498 *)
ConcernLevel(time_since, typical_interval) ==
    ActivityContext(time_since, typical_interval,
                    IF RLt(RZero, typical_interval)
                    THEN RDiv(RInt(time_since), typical_interval) ELSE RZero)

(* lines 476-489 *)
ContextSince(an, clock, last_activity) ==
    IF last_activity = NoneDT
    THEN [time_since_seconds |-> NoneDT, typical_interval_seconds |-> RZero,
          status |-> "unknown", concern_level |-> RZero]
    ELSE ConcernLevel(clock - last_activity.t, get_typical_interval(an, clock))

get_time_since_activity_context(an, clock) ==
    ContextSince(an, clock, get_last_activity_time(an))

RECURSIVE ExpectedByNow(_, _, _, _)
(* lines 532-536 over the first k patterns *)
ExpectedByNow(an, day_of_week, current_interval, k) ==
    IF k = 0 THEN RZero
    ELSE RAdd(ExpectedByNow(an, day_of_week, current_interval, k - 1),
              SumMeans(an.patterns[k].day_buckets[day_of_week], current_interval + 1))

RECURSIVE ActualToday(_, _, _)
(* line 539 over the first k patterns *)
ActualToday(an, clock, k) ==
    IF k = 0 THEN 0
    ELSE ActualToday(an, clock, k - 1) + get_daily_count(an, an.patterns[k].entity_id, clock)

(* lines 547-570 *)
RoutineProgress(progress, expected_total, actual_total, expected_full_day) ==
    [progress_percent |-> progress,
     expected_by_now |-> expected_total,
     actual_today |-> actual_total,
     expected_full_day |-> expected_full_day,
     status |-> IF RLe(RInt(70), progress) THEN "on_track"
                ELSE IF RLe(RInt(40), progress) THEN "below_normal"
                ELSE IF RLe(RInt(20), progress) THEN "concerning"
                ELSE "alert"]

(* lines 541-545 *)
ProgressOf(expected_total, actual_total, expected_full_day) ==
    RoutineProgress(IF RLt(RZero, expected_total)
                    THEN RMin(RInt(100),
                              RMul(RDiv(RInt(actual_total), expected_total), RInt(100)))
                    ELSE RInt(100),
                    expected_total, actual_total, expected_full_day)

get_routine_progress(an, clock) ==
    ProgressOf(ExpectedByNow(an, Weekday(NowUtc(clock)), _get_interval_index(NowUtc(clock)),
                             Len(an.patterns)),
               ActualToday(an, clock, Len(an.patterns)),
               TotalRate(an, Weekday(NowUtc(clock)), Len(an.patterns)))

(* a z-score that is infinite for a deviation from a mean without variance *)
EntityStatusZUnbounded(expected, actual) ==
    IF RLt(RZero, expected.std_sq)
    THEN ZSq(RDiv(RMul(RSub(RInt(actual), expected.mean), RSub(RInt(actual), expected.mean)),
                  expected.std_sq))
    ELSE IF ~REq(RInt(actual), expected.mean) /\ RLt(RZero, expected.mean)
    THEN ZInf
    ELSE ZOf(RZero)

(* the z-score of lines 582-588 *)
EntityStatusZ(expected, actual) ==
    IF RLt(RZero, expected.std_sq)
    THEN ZSq(RDiv(RMul(RSub(RInt(actual), expected.mean), RSub(RInt(actual), expected.mean)),
                  expected.std_sq))
    ELSE IF ~REq(RInt(actual), expected.mean) /\ RLt(RZero, expected.mean)
    THEN ZOf(RInt(3))
    ELSE ZOf(RZero)

(* lines 590-615 *)
EntityStatusEntry(an, pattern, clock, expected, actual, z_score) ==
    [entity_id |-> pattern.entity_id,
     last_activity |-> IsoOrNone(pattern.last_observation),
     time_since_seconds |-> IF pattern.last_observation = NoneDT THEN NoneDT
                            ELSE <<clock - pattern.last_observation.t>>,
     daily_count |-> get_daily_count(an, pattern.entity_id, clock),
     current_interval_count |-> actual,
     expected_interval_count |-> expected.mean,
     z_score |-> z_score,
     severity |-> _get_severity(z_score),
     status |-> IF ZLt(z_score, Rat(3, 2)) THEN "normal"
                ELSE IF ZLt(z_score, Rat(5, 2)) THEN "attention"
                ELSE IF ZLt(z_score, Rat(7, 2)) THEN "concern"
                ELSE "alert"]

(* lines 579-588 *)
EntityStatusExpected(an, pattern, clock, expected, actual) ==
    EntityStatusEntry(an, pattern, clock, expected, actual, EntityStatusZ(expected, actual))

(* lines 577-615 for one pattern *)
EntityStatusOf(an, pattern, clock) ==
    EntityStatusExpected(an, pattern, clock, get_expected_activity(pattern, NowUtc(clock)),
                         DictGet(an.current_interval_activity, pattern.entity_id))

WithStatus(statuses, st) == SelectSeq(statuses, LAMBDA e : e.status = st)

(* line 618: list.sort is stable: most concerning first, insertion order within *)
(* a status                                                                     *)
SortByStatus(unsorted) ==
    WithStatus(unsorted, "alert") \o WithStatus(unsorted, "concern")
    \o WithStatus(unsorted, "attention") \o WithStatus(unsorted, "normal")

get_entity_status(an, clock) ==
    SortByStatus([k \in DOMAIN an.patterns |-> EntityStatusOf(an, an.patterns[k], clock)])

(* the precedence with check_recommended tested before the routine progress *)
WelfareLevelCheckFirst(activity_status, routine_status, counts) ==
    IF activity_status = "alert" THEN WELFARE_ALERT
    ELSE IF counts.alert > 0 THEN WELFARE_ALERT
    ELSE IF activity_status = "concern" \/ counts.concern > 0 THEN WELFARE_CONCERN
    ELSE IF activity_status = "check_recommended" \/ counts.attention > 1
    THEN WELFARE_CHECK
    ELSE IF routine_status \in {"concerning", "alert"} THEN WELFARE_CONCERN
    ELSE WELFARE_OK

(* lines 639-661: the welfare status of the three indicators *)
WelfareLevel(activity_status, routine_status, counts) ==
    IF activity_status = "alert" THEN WELFARE_ALERT
    ELSE IF counts.alert > 0 THEN WELFARE_ALERT
    ELSE IF activity_status = "concern" \/ counts.concern > 0 THEN WELFARE_CONCERN
    ELSE IF routine_status \in {"concerning", "alert"} THEN WELFARE_CONCERN
    ELSE IF activity_status = "check_recommended" \/ counts.attention > 1
    THEN WELFARE_CHECK
    ELSE WELFARE_OK

(* lines 674-679 *)
CountsByStatus(total, alert_count, concern_count, attention_count) ==
    [alert |-> alert_count, concern |-> concern_count, attention |-> attention_count,
     normal |-> total - alert_count - concern_count - attention_count]

(* lines 633-636 *)
StatusCounts(entity_statuses) ==
    CountsByStatus(Len(entity_statuses),
                   Len(WithStatus(entity_statuses, "alert")),
                   Len(WithStatus(entity_statuses, "concern")),
                   Len(WithStatus(entity_statuses, "attention")))

(* lines 663-685 *)
WelfareStatus(activity_status, routine_status, counts) ==
    [status |-> WelfareLevel(activity_status, routine_status, counts),
     time_since_activity |-> activity_status,
     routine_progress |-> routine_status,
     entity_count_by_status |-> counts]

get_welfare_status(an, clock) ==
    WelfareStatus(get_time_since_activity_context(an, clock).status,
                  get_routine_progress(an, clock).status,
                  StatusCounts(get_entity_status(an, clock)))

(***************************************************************************)
(* analyzer.py: serialization                                              *)
(***************************************************************************)
BucketToDict(b) == [count |-> b.count, sum_values |-> b.sum_values, sum_squared |-> b.sum_squared]
BucketFromDict(d) == [count |-> d.count, sum_values |-> d.sum_values, sum_squared |-> d.sum_squared]

(* EntityPattern.to_dict: the day keys become strings *)
DayKey(day) == <<"day", day>>
PatternToDict(pattern) ==
    [entity_id |-> pattern.entity_id,
     day_buckets |-> [key \in {DayKey(day) : day \in DOMAIN pattern.day_buckets} |->
                         [i \in DOMAIN pattern.day_buckets[key[2]] |->
                             BucketToDict(pattern.day_buckets[key[2]][i])]],
     total_observations |-> pattern.total_observations,
     first_observation |-> IsoOrNone(pattern.first_observation),
     last_observation |-> IsoOrNone(pattern.last_observation)]

(* EntityPattern.from_dict: days of the document replace the empty ones, missing *)
(* days are created and short days are padded to INTERVALS_PER_DAY buckets       *)
PatternFromDict(data) ==
    LET loaded(day) == [i \in DOMAIN data.day_buckets[DayKey(day)] |->
                           BucketFromDict(data.day_buckets[DayKey(day)][i])]
        padded(day) == [i \in 1..Max(Len(loaded(day)), INTERVALS_PER_DAY) |->
                           IF i <= Len(loaded(day)) THEN loaded(day)[i] ELSE TimeBucket]
        days == {key[2] : key \in DOMAIN data.day_buckets} \cup 0..(DAYS_IN_WEEK - 1)
    IN  [entity_id |-> data.entity_id,
         day_buckets |-> [day \in days |->
                             IF DayKey(day) \in DOMAIN data.day_buckets
                             THEN IF day \in 0..(DAYS_IN_WEEK - 1) THEN padded(day) ELSE loaded(day)
                             ELSE EmptyDay],
         total_observations |-> data.total_observations,
         first_observation |-> FromIsoOrNone(data.first_observation),
         last_observation |-> FromIsoOrNone(data.last_observation)]

AnalyzerToDict(an) ==
    [patterns |-> [k \in DOMAIN an.patterns |-> PatternToDict(an.patterns[k])],
     sensitivity_threshold |-> an.sensitivity_threshold,
     learning_period_days |-> an.learning_period_days]

(* PatternAnalyzer.from_dict: the arguments win over the document's values; the *)
(* daily and current-interval counters are not part of the document             *)
AnalyzerFromDict(data, sensitivity_threshold, learning_period_days) ==
    [PatternAnalyzer(sensitivity_threshold, learning_period_days) EXCEPT
        !.patterns = [k \in DOMAIN data.patterns |-> PatternFromDict(data.patterns[k])]]

(***************************************************************************)
(* Entity ids.  Python compares them as strings; EntityOrder lists the     *)
(* ids of the model in that (alphabetical) order.                          *)
(***************************************************************************)
EntityOrder == <<"sensor.a", "sensor.b", "sensor.c">>
Entities == {EntityOrder[i] : i \in DOMAIN EntityOrder}
Rank(e) == CHOOSE i \in DOMAIN EntityOrder : EntityOrder[i] = e
(* the pair in the order of arrival instead of sorted *)
UnsortedPair(x, y) == <<x, y>>
(* sorted([x, y]) *)
SortedPair(x, y) == IF Rank(x) <= Rank(y) THEN <<x, y>> ELSE <<y, x>>

(***************************************************************************)
(* ml_analyzer.py: StateChangeEvent and CrossSensorPattern                 *)
(***************************************************************************)
StateChangeEvent(entity_id, timestamp, old_state, new_state) ==
    [entity_id |-> entity_id, timestamp |-> timestamp,
     old_state |-> old_state, new_state |-> new_state]

EventToDict(e) ==
    [entity_id |-> e.entity_id, timestamp |-> IsoFormat(e.timestamp),
     old_state |-> e.old_state, new_state |-> e.new_state]
EventFromDict(d) ==
    [entity_id |-> d.entity_id, timestamp |-> FromIsoFormat(d.timestamp),
     old_state |-> d.old_state, new_state |-> d.new_state]

CrossSensorPattern(entity_a, entity_b) ==
    [entity_a |-> entity_a, entity_b |-> entity_b,
     co_occurrence_count |-> 0, avg_time_delta_seconds |-> RZero,
     a_before_b_count |-> 0, b_before_a_count |-> 0]

(* floor(ln(1 + n) * 10^6) for n = 1 .. 147; ln(1 + n) / 5 >= 1 from n = 148 on *)
LOG1P_MICRO ==
    <<693147, 1098612, 1386294, 1609437, 1791759, 1945910, 2079441, 2197224, 2302585, 2397895,
     2484906, 2564949, 2639057, 2708050, 2772588, 2833213, 2890371, 2944438, 2995732, 3044522,
     3091042, 3135494, 3178053, 3218875, 3258096, 3295836, 3332204, 3367295, 3401197, 3433987,
     3465735, 3496507, 3526360, 3555348, 3583518, 3610917, 3637586, 3663561, 3688879, 3713572,
     3737669, 3761200, 3784189, 3806662, 3828641, 3850147, 3871201, 3891820, 3912023, 3931825,
     3951243, 3970291, 3988984, 4007333, 4025351, 4043051, 4060443, 4077537, 4094344, 4110873,
     4127134, 4143134, 4158883, 4174387, 4189654, 4204692, 4219507, 4234106, 4248495, 4262679,
     4276666, 4290459, 4304065, 4317488, 4330733, 4343805, 4356708, 4369447, 4382026, 4394449,
     4406719, 4418840, 4430816, 4442651, 4454347, 4465908, 4477336, 4488636, 4499809, 4510859,
     4521788, 4532599, 4543294, 4553876, 4564348, 4574710, 4584967, 4595119, 4605170, 4615120,
     4624972, 4634728, 4644390, 4653960, 4663439, 4672828, 4682131, 4691347, 4700480, 4709530,
     4718498, 4727387, 4736198, 4744932, 4753590, 4762173, 4770684, 4779123, 4787491, 4795790,
     4804021, 4812184, 4820281, 4828313, 4836281, 4844187, 4852030, 4859812, 4867534, 4875197,
     4882801, 4890349, 4897839, 4905274, 4912654, 4919980, 4927253, 4934473, 4941642, 4948759,
     4955827, 4962844, 4969813, 4976733, 4983606, 4990432, 4997212>>

(* min(1.0, log1p(count) / 5.0), to six decimals *)
CountFactor(count) ==
    IF count > Len(LOG1P_MICRO) THEN RInt(1) ELSE Rat(LOG1P_MICRO[count], 5000000)

correlation_strength(p) ==
    LET total == p.a_before_b_count + p.b_before_a_count
    IN  IF p.co_occurrence_count = 0 THEN RZero
        ELSE IF total = 0 THEN RZero
        ELSE RMul(Rat(Max(p.a_before_b_count, p.b_before_a_count), total),
                  CountFactor(p.co_occurrence_count))

(***************************************************************************)
(* ml_analyzer.py: MLPatternAnalyzer                                       *)
(* _model is River's HalfSpaceTrees, a library outside the repository: it  *)
(* is carried as the sequence of feature vectors it has learned since it   *)
(* was constructed (none when the library is unavailable), and its score   *)
(* is the choice of the caller.                                            *)
(***************************************************************************)
NoModel == [none |-> TRUE, learned |-> << >>]
HalfSpaceTrees == [none |-> FALSE, learned |-> << >>]
learn_one(model, features) == [model EXCEPT !.learned = Append(@, features)]

MLPatternAnalyzer(ml_available, contamination, cross_sensor_window_seconds) ==
    [ml_available |-> ml_available,
     contamination |-> contamination,
     cross_sensor_window |-> cross_sensor_window_seconds,
     events |-> << >>,
     model |-> IF ml_available THEN HalfSpaceTrees ELSE NoModel,
     samples_processed |-> 0,
     cross_sensor_patterns |-> << >>,
     entity_last_change |-> EmptyDict,
     recent_events_window |-> << >>,
     entity_indices |-> EmptyDict,
     became_effective_at |-> NoneDT,
     last_warmup |-> NoneDT]

(* trained while the log holds the minimum of events *)
IsTrainedOnLog(ml) == ml.ml_available /\ Len(ml.events) >= MIN_SAMPLES_FOR_ML

is_trained(ml) == ml.ml_available /\ ml.samples_processed >= MIN_SAMPLES_FOR_ML

last_trained(ml) == IF ml.last_warmup # NoneDT THEN ml.last_warmup ELSE ml.became_effective_at

(* the analyzer after _get_entity_index(entity_id) *)
_get_entity_index(ml, entity_id) ==
    IF entity_id \in DOMAIN ml.entity_indices THEN ml
    ELSE [ml EXCEPT !.entity_indices = DictSet(@, entity_id, Cardinality(DOMAIN @))]

(* the events of s[from .. Len(s)] of the entity at or after the instant *)
RecentCount(s, from, entity_id, since) ==
    Cardinality({i \in from..Len(s) : s[i].entity_id = entity_id /\ s[i].timestamp.t >= since})

(* the feature vector; the entity index it may create is in FeaturesIndexed *)
FeaturesIndexed(ml, event) == _get_entity_index(ml, event.entity_id)

_extract_features(ml, event) ==
    LET ts == event.timestamp
        day_of_week == Weekday(ts)
        known == event.entity_id \in DOMAIN ml.entity_last_change
        last_change == IF known THEN ml.entity_last_change[event.entity_id] ELSE NoneDT
        time_since_last == IF last_change # NoneDT /\ last_change.t < ts.t
                           THEN ts.t - last_change.t ELSE 0
        recent_count == RecentCount(ml.events, Max(1, Len(ml.events) - 999),
                                    event.entity_id, ts.t - 3600)
        indexed == FeaturesIndexed(ml, event)
    IN  [hour |-> Rat((Wall(ts) % SECONDS_PER_DAY) \div 3600, 23),
         minute_bucket |-> Rat(((Wall(ts) % 3600) \div 60) \div 15, 3),
         day_of_week |-> Rat(day_of_week, 6),
         is_weekend |-> IF day_of_week >= 5 THEN RInt(1) ELSE RZero,
         time_since_last |-> Rat(Min(time_since_last, SECONDS_PER_DAY), SECONDS_PER_DAY),
         recent_activity |-> Rat(Min(recent_count, 20), 20),
         entity_idx |-> Rat(indexed.entity_indices[event.entity_id],
                            Max(1, Cardinality(DOMAIN indexed.entity_indices)))]

(* pattern lookup by key in the insertion-ordered dict of patterns *)
PatternKeys(ml) ==
    {<<ml.cross_sensor_patterns[i].entity_a, ml.cross_sensor_patterns[i].entity_b>> :
        i \in DOMAIN ml.cross_sensor_patterns}
CrossIndex(patterns, key) ==
    CHOOSE i \in DOMAIN patterns : patterns[i].entity_a = key[1] /\ patterns[i].entity_b = key[2]

(* a co-occurrence whose order is counted only when the first entity led *)
CoOccurCountsLeadOnly(patterns, recent_event, new_event) ==
    LET key == SortedPair(recent_event.entity_id, new_event.entity_id)
        present == \E i \in DOMAIN patterns :
                      patterns[i].entity_a = key[1] /\ patterns[i].entity_b = key[2]
        ps == IF present THEN patterns ELSE Append(patterns, CrossSensorPattern(key[1], key[2]))
        i == CrossIndex(ps, key)
        n == ps[i].co_occurrence_count + 1
        time_delta == new_event.timestamp.t - recent_event.timestamp.t
        old_avg == ps[i].avg_time_delta_seconds
    IN  IF recent_event.entity_id = new_event.entity_id THEN patterns
        ELSE [ps EXCEPT
                 ![i].co_occurrence_count = n,
                 ![i].avg_time_delta_seconds =
                     RAdd(old_avg, RDiv(RSub(RInt(Abs(time_delta)), old_avg), RInt(n))),
                 ![i].a_before_b_count =
                     IF recent_event.entity_id = key[1] THEN @ + 1 ELSE @]

(* lines 248-277 for one recent event *)
CoOccur(patterns, recent_event, new_event) ==
    LET key == SortedPair(recent_event.entity_id, new_event.entity_id)
        present == \E i \in DOMAIN patterns :
                      patterns[i].entity_a = key[1] /\ patterns[i].entity_b = key[2]
        ps == IF present THEN patterns ELSE Append(patterns, CrossSensorPattern(key[1], key[2]))
        i == CrossIndex(ps, key)
        n == ps[i].co_occurrence_count + 1
        time_delta == new_event.timestamp.t - recent_event.timestamp.t
        old_avg == ps[i].avg_time_delta_seconds
    IN  IF recent_event.entity_id = new_event.entity_id THEN patterns
        ELSE [ps EXCEPT
                 ![i].co_occurrence_count = n,
                 ![i].avg_time_delta_seconds =
                     RAdd(old_avg, RDiv(RSub(RInt(Abs(time_delta)), old_avg), RInt(n))),
                 ![i].a_before_b_count =
                     IF recent_event.entity_id = key[1] THEN @ + 1 ELSE @,
                 ![i].b_before_a_count =
                     IF recent_event.entity_id = key[1] THEN @ ELSE @ + 1]

RECURSIVE CoOccurAll(_, _, _, _)
CoOccurAll(patterns, window, new_event, k) ==
    IF k = 0 THEN patterns
    ELSE CoOccur(CoOccurAll(patterns, window, new_event, k - 1), window[k], new_event)

_update_cross_sensor_patterns(ml, new_event) ==
    LET cutoff == new_event.timestamp.t - ml.cross_sensor_window
        window == SelectSeq(ml.recent_events_window, LAMBDA e : e.timestamp.t >= cutoff)
    IN  [ml EXCEPT
            !.cross_sensor_patterns = CoOccurAll(@, window, new_event, Len(window)),
            !.recent_events_window = Append(window, new_event)]

(* record_event stamping became_effective_at at every event from the hundredth on *)
RecordEventRestamps(ml, entity_id, timestamp, old_state, new_state) ==
    LET event == StateChangeEvent(entity_id, timestamp, old_state, new_state)
        m1 == [ml EXCEPT !.events = Append(@, event)]
        m2 == _update_cross_sensor_patterns(m1, event)
        learns == m2.ml_available /\ m2.model # NoModel
        features == _extract_features(m2, event)
        m3 == IF ~learns THEN m2
              ELSE [FeaturesIndexed(m2, event) EXCEPT
                       !.model = learn_one(@, features),
                       !.samples_processed = @ + 1,
                       !.became_effective_at =
                           IF m2.samples_processed + 1 >= MIN_SAMPLES_FOR_ML
                           THEN timestamp ELSE @]
    IN  [m3 EXCEPT !.entity_last_change = DictSet(@, entity_id, timestamp)]

record_event(ml, entity_id, timestamp, old_state, new_state) ==
    LET event == StateChangeEvent(entity_id, timestamp, old_state, new_state)
        m1 == [ml EXCEPT !.events = Append(@, event)]
        m2 == _update_cross_sensor_patterns(m1, event)
        learns == m2.ml_available /\ m2.model # NoModel
        features == _extract_features(m2, event)
        m3 == IF ~learns THEN m2
              ELSE [FeaturesIndexed(m2, event) EXCEPT
                       !.model = learn_one(@, features),
                       !.samples_processed = @ + 1,
                       !.became_effective_at =
                           IF @ = NoneDT /\ m2.samples_processed + 1 >= MIN_SAMPLES_FOR_ML
                           THEN timestamp ELSE @]
    IN  [m3 EXCEPT !.entity_last_change = DictSet(@, entity_id, timestamp)]

(* lines 356-359 for one event *)
ReplayOne(m, event) ==
    [FeaturesIndexed(m, event) EXCEPT
        !.model = learn_one(@, _extract_features(m, event)),
        !.samples_processed = @ + 1,
        !.entity_last_change = DictSet(@, event.entity_id, event.timestamp)]

RECURSIVE Replay(_, _, _)
(* lines 355-359: the analyzer after its events lo .. hi are replayed in order *)
Replay(ml, lo, hi) ==
    IF lo > hi THEN ml
    ELSE IF lo = hi THEN ReplayOne(ml, ml.events[lo])
    ELSE LET mid == (lo + hi) \div 2
             first == Replay(ml, lo, mid)
         IN  IF Evaluated(first) THEN Replay(first, mid + 1, hi) ELSE first

(* train() without its minimum of stored events *)
TrainsWithAnyEvents(ml) == ml.ml_available /\ ml.model # NoModel

TrainSucceeds(ml) ==
    ml.ml_available /\ ml.model # NoModel /\ Len(ml.events) >= MIN_SAMPLES_FOR_ML

(* the analyzer after train(); its return value is TrainSucceeds *)
train(ml, clock) ==
    IF ~TrainSucceeds(ml) THEN ml
    ELSE LET reset == [ml EXCEPT !.model = HalfSpaceTrees,
                                 !.samples_processed = 0,
                                 !.entity_last_change = EmptyDict]
             replayed == Replay(reset, 1, Len(ml.events))
         IN  [replayed EXCEPT
                 !.last_warmup = NowUtc(clock),
                 !.became_effective_at =
                     IF @ = NoneDT /\ replayed.samples_processed >= MIN_SAMPLES_FOR_ML
                     THEN NowUtc(clock) ELSE @]

(* prune_old_events dropping the event that is exactly max_age_days old as well *)
PruneKeepsStrictlyNewer(ml, max_age_days, clock) ==
    LET cutoff == clock - max_age_days * SECONDS_PER_DAY
    IN  [ml EXCEPT !.events = SelectSeq(@, LAMBDA e : e.timestamp.t > cutoff)]

(* the analyzer after prune_old_events(max_age_days) *)
prune_old_events(ml, max_age_days, clock) ==
    LET cutoff == clock - max_age_days * SECONDS_PER_DAY
    IN  [ml EXCEPT !.events = SelectSeq(@, LAMBDA e : e.timestamp.t >= cutoff)]

(* check_anomaly: the analyzer after the call (the feature extraction may index *)
(* the entity) and the result, << >> for None.  outlier: score_one(features) >  *)
(* 1 - contamination, the answer of the library                                 *)
CheckAnomalyState(ml, event) ==
    IF ~is_trained(ml) \/ ml.model = NoModel THEN ml ELSE FeaturesIndexed(ml, event)
check_anomaly(ml, event, outlier) ==
    IF ~is_trained(ml) \/ ml.model = NoModel THEN << >>
    ELSE IF outlier
    THEN << [is_anomaly |-> TRUE, entity_id |-> event.entity_id,
             anomaly_type |-> "half_space_trees", timestamp |-> event.timestamp,
             related_entities |-> << >>] >>
    ELSE << >>

(* the check flagging a lone change of entity_b whatever the usual order *)
CrossCheckEitherOrder(pattern, changes, clock) ==
    LET a_changed == pattern.entity_a \in DOMAIN changes
        b_changed == pattern.entity_b \in DOMAIN changes
        expected_window == RMul(pattern.avg_time_delta_seconds, RInt(2))
        late(e) == RLt(expected_window, RInt(clock - changes[e].t))
        missing(absent, seen) ==
            << [is_anomaly |-> TRUE, entity_id |-> absent,
                anomaly_type |-> "missing_correlation", timestamp |-> NowUtc(clock),
                related_entities |-> <<seen>>] >>
    IN  IF a_changed /\ ~b_changed
        THEN IF late(pattern.entity_a) THEN missing(pattern.entity_b, pattern.entity_a)
             ELSE << >>
        ELSE IF b_changed /\ ~a_changed
        THEN IF late(pattern.entity_b) THEN missing(pattern.entity_a, pattern.entity_b)
             ELSE << >>
        ELSE << >>

(* lines 430-480 for one strong pattern: << >> or one MLAnomalyResult *)
CrossCheck(pattern, changes, clock) ==
    LET a_changed == pattern.entity_a \in DOMAIN changes
        b_changed == pattern.entity_b \in DOMAIN changes
        expected_window == RMul(pattern.avg_time_delta_seconds, RInt(2))
        late(e) == RLt(expected_window, RInt(clock - changes[e].t))
        missing(absent, seen) ==
            << [is_anomaly |-> TRUE, entity_id |-> absent,
                anomaly_type |-> "missing_correlation", timestamp |-> NowUtc(clock),
                related_entities |-> <<seen>>] >>
    IN  IF a_changed /\ ~b_changed
        THEN IF late(pattern.entity_a) THEN missing(pattern.entity_b, pattern.entity_a)
             ELSE << >>
        ELSE IF b_changed /\ ~a_changed
        THEN IF late(pattern.entity_b) /\ pattern.a_before_b_count > pattern.b_before_a_count
             THEN missing(pattern.entity_a, pattern.entity_b)
             ELSE << >>
        ELSE << >>

RECURSIVE CrossLoop(_, _, _, _)
CrossLoop(patterns, changes, clock, k) ==
    IF k = 0 THEN << >>
    ELSE CrossLoop(patterns, changes, clock, k - 1) \o CrossCheck(patterns[k], changes, clock)

RECURSIVE RecentChanges(_, _, _)
(* lines 425-428: the last timestamp of each entity among the first k events *)
RecentChanges(recent_events, since, k) ==
    IF k = 0 THEN EmptyDict
    ELSE LET prev == RecentChanges(recent_events, since, k - 1)
             event == recent_events[k]
         IN  IF event.timestamp.t >= since
             THEN DictSet(prev, event.entity_id, event.timestamp)
             ELSE prev

(* check_window None: the analyzer's own window *)
check_cross_sensor_anomalies(ml, recent_events, clock) ==
    LET strong_patterns ==
            SelectSeq(ml.cross_sensor_patterns,
                      LAMBDA p : RLt(Rat(1, 2), correlation_strength(p))
                                 /\ p.co_occurrence_count >= 10)
        changes == RecentChanges(recent_events, clock - ml.cross_sensor_window,
                                 Len(recent_events))
    IN  IF strong_patterns = << >> THEN << >>
        ELSE CrossLoop(strong_patterns, changes, clock, Len(strong_patterns))

(* get_strong_patterns without its final sort by rounded strength *)
get_strong_patterns(ml, min_strength) ==
    LET strong == SelectSeq(ml.cross_sensor_patterns,
                            LAMBDA p : RLe(min_strength, correlation_strength(p)))
    IN  [i \in DOMAIN strong |->
            [entities |-> <<strong[i].entity_a, strong[i].entity_b>>,
             co_occurrences |-> strong[i].co_occurrence_count,
             usual_order |-> IF strong[i].a_before_b_count > strong[i].b_before_a_count
                             THEN <<strong[i].entity_a, strong[i].entity_b>>
                             ELSE <<strong[i].entity_b, strong[i].entity_a>>]]

(***************************************************************************)
(* ml_analyzer.py: serialization                                           *)
(***************************************************************************)
(* the key "a|b" of a pattern, and its split("|") *)
JoinKey(a, b) == <<a, "|", b>>
MLToDict(ml) ==
    [events |-> [i \in DOMAIN ml.events |-> EventToDict(ml.events[i])],
     cross_sensor_patterns |->
         [i \in DOMAIN ml.cross_sensor_patterns |->
             [key |-> JoinKey(ml.cross_sensor_patterns[i].entity_a,
                              ml.cross_sensor_patterns[i].entity_b),
              value |-> ml.cross_sensor_patterns[i]]],
     samples_processed |-> ml.samples_processed,
     contamination |-> ml.contamination,
     cross_sensor_window_seconds |-> ml.cross_sensor_window,
     entity_indices |-> ml.entity_indices,
     became_effective_at |-> IsoOrNone(ml.became_effective_at),
     last_warmup |-> IsoOrNone(ml.last_warmup)]

RECURSIVE LastChanges(_, _, _)
(* lines 577-578 over the events lo .. hi: a later event overwrites an earlier one *)
LastChanges(events, lo, hi) ==
    IF lo > hi THEN EmptyDict
    ELSE IF lo = hi THEN DictSet(EmptyDict, events[lo].entity_id, events[lo].timestamp)
    ELSE LET mid == (lo + hi) \div 2
         IN  LastChanges(events, mid + 1, hi) @@ LastChanges(events, lo, mid)

(* from_dict without its closing train() *)
MLFromDictNoWarmUp(data, ml_available, contamination, cross_sensor_window_seconds, clock) ==
    LET events == [i \in DOMAIN data.events |-> EventFromDict(data.events[i])]
    IN  [MLPatternAnalyzer(ml_available, contamination, cross_sensor_window_seconds) EXCEPT
            !.events = events,
            !.cross_sensor_patterns =
                [i \in DOMAIN data.cross_sensor_patterns |->
                    data.cross_sensor_patterns[i].value],
            !.entity_indices = data.entity_indices,
            !.samples_processed = data.samples_processed,
            !.became_effective_at = FromIsoOrNone(data.became_effective_at),
            !.last_warmup = FromIsoOrNone(data.last_warmup),
            !.entity_last_change = LastChanges(events, 1, Len(events))]

(* MLPatternAnalyzer.from_dict; the arguments win over the document's values *)
MLFromDict(data, ml_available, contamination, cross_sensor_window_seconds, clock) ==
    LET events == [i \in DOMAIN data.events |-> EventFromDict(data.events[i])]
        restored ==
            [MLPatternAnalyzer(ml_available, contamination, cross_sensor_window_seconds) EXCEPT
                !.events = events,
                !.cross_sensor_patterns =
                    [i \in DOMAIN data.cross_sensor_patterns |->
                        data.cross_sensor_patterns[i].value],
                !.entity_indices = data.entity_indices,
                !.samples_processed = data.samples_processed,
                !.became_effective_at = FromIsoOrNone(data.became_effective_at),
                !.last_warmup = FromIsoOrNone(data.last_warmup),
                !.entity_last_change = LastChanges(events, 1, Len(events))]
    IN  IF Len(events) >= MIN_SAMPLES_FOR_ML THEN train(restored, clock) ELSE restored

(* first_event_time is read by the coordinator (line 552) and is not defined in *)
(* ml_analyzer.py: the timestamp of the first event of the log, None without one *)
first_event_time(ml) == IF ml.events = << >> THEN NoneDT ELSE ml.events[1].timestamp

(***************************************************************************)
(* const.py                                                                *)
(***************************************************************************)
SENSITIVITY_THRESHOLDS == [low |-> 3, medium |-> 2, high |-> 1]
ML_CONTAMINATION == [low |-> Rat(1, 100), medium |-> Rat(5, 100), high |-> Rat(10, 100)]
SNOOZE_OFF == "off"
SNOOZE_DURATIONS ==
    [off |-> 0, 1_hour |-> 3600, 2_hours |-> 7200, 4_hours |-> 14400, 1_day |-> 86400]

(***************************************************************************)
(* Bounds of the model                                                     *)
(***************************************************************************)
MaxCalls == 2

(***************************************************************************)
(* coordinator.py: the state                                               *)
(***************************************************************************)
VARIABLES
    clock,                  \* the current instant
    tz,                     \* the utc offset of dt_util.now()
    cfg,                    \* entry.data and ML_AVAILABLE
    phase,                  \* "constructed", "running" (set up) or "stopped"
    analyzer,               \* _analyzer
    ml,                     \* _ml_analyzer
    holiday_mode,           \* _holiday_mode
    snooze_until,           \* _snooze_until
    last_welfare_status,    \* _last_welfare_status
    last_notification_time, \* _last_notification_time
    last_notification_type, \* _last_notification_type
    recent_events,          \* _recent_events
    recent_anomalies,       \* _recent_anomalies
    recent_ml_anomalies,    \* _recent_ml_anomalies
    store,                  \* the document of _store, << >> when there is none
    ml_store,               \* the document of _ml_store
    pc,                     \* the await at which _async_update_data is suspended
    tick,                   \* the local variables of the running _async_update_data
    sent,                   \* the notifications the last tick has dispatched
    welfare_run,            \* the current run of eligible ticks with one welfare status
    saved_state,            \* the coordinator fields at the last write of store
    handled,                \* what _handle_state_changed has done so far
    setup_info,             \* what async_setup loaded, and whether a tick started since
    budget,                 \* the calls the environment has made, against MaxCalls
    probe,                  \* the last call of a function of analyzer.py made directly
    journal                 \* the records the analyzers were given by direct calls

vars == <<clock, tz, cfg, phase, analyzer, ml, holiday_mode, snooze_until,
          last_welfare_status, last_notification_time, last_notification_type,
          recent_events, recent_anomalies, recent_ml_anomalies, store, ml_store,
          pc, tick, sent, welfare_run, saved_state, handled,
          setup_info, budget, probe, journal>>

now_local == DateTime(clock, tz)

(* a snooze that still holds at snooze_until itself *)
SnoozedUpToDeadline == IF snooze_until = NoneDT THEN FALSE ELSE clock <= snooze_until.t

(* lines 171-175 *)
is_snoozed == IF snooze_until = NoneDT THEN FALSE ELSE clock < snooze_until.t

(* ML enabled whenever the entry asks for it *)
EnabledWhenRequested == cfg.ml_requested

(* line 90: ml_requested and ML_AVAILABLE *)
enable_ml == cfg.ml_requested /\ cfg.ml_available

NewAnalyzer ==
    PatternAnalyzer(SENSITIVITY_THRESHOLDS[cfg.sensitivity], cfg.learning_period)
NewMLAnalyzer(c) ==
    MLPatternAnalyzer(c.ml_available, ML_CONTAMINATION[c.sensitivity], c.cross_sensor_window)

IdleTick ==
    [holiday_at_start |-> FALSE, snoozed_at_start |-> FALSE, first_after_load |-> FALSE,
     skip |-> FALSE, ran_stat |-> FALSE, ran_ml |-> FALSE,
     stat_anomalies |-> << >>, ml_anomalies |-> << >>,
     stat_learning_complete |-> FALSE, ml_learning_complete |-> FALSE,
     welfare |-> None, sink |-> 0, category |-> None]

NoRun == [status |-> None, sent |-> 0]

NoProbe == [op |-> None]

(***************************************************************************)
(* coordinator.py: persistence                                             *)
(***************************************************************************)
(* a storage_data that leaves last_welfare_status out *)
StorageDataWithoutWelfare(f) ==
    [analyzer |-> AnalyzerToDict(f.analyzer),
     coordinator |->
         [last_notification_time |-> IsoOrNone(f.last_notification_time),
          last_notification_type |-> f.last_notification_type,
          holiday_mode |-> f.holiday_mode,
          snooze_until |-> IsoOrNone(f.snooze_until)]]

(* the storage_data of _save_data, lines 320-337, of a coordinator with fields f *)
StorageData(f) ==
    [analyzer |-> AnalyzerToDict(f.analyzer),
     coordinator |->
         [last_notification_time |-> IsoOrNone(f.last_notification_time),
          last_notification_type |-> f.last_notification_type,
          last_welfare_status |-> f.last_welfare_status,
          holiday_mode |-> f.holiday_mode,
          snooze_until |-> IsoOrNone(f.snooze_until)]]

(* the fields of the coordinator that _save_data reads *)
Fields ==
    [analyzer |-> analyzer,
     last_notification_time |-> last_notification_time,
     last_notification_type |-> last_notification_type,
     last_welfare_status |-> last_welfare_status,
     holiday_mode |-> holiday_mode,
     snooze_until |-> snooze_until]

(* the fields that async_setup restores besides the patterns and the snooze *)
Persistent(f) ==
    [last_notification_time |-> f.last_notification_time,
     last_notification_type |-> f.last_notification_type,
     last_welfare_status |-> f.last_welfare_status,
     holiday_mode |-> f.holiday_mode]

(* a retrain check that is due as soon as the period has elapsed *)
CheckRetrainAtPeriod(m) ==
    IF ~enable_ml THEN m
    ELSE IF last_trained(m) = NoneDT
    THEN IF m.samples_processed >= MIN_SAMPLES_FOR_ML THEN train(m, clock) ELSE m
    ELSE IF clock - last_trained(m).t >= cfg.retrain_period_days * SECONDS_PER_DAY
    THEN train(prune_old_events(m, cfg.retrain_period_days * 2, clock), clock)
    ELSE m

(* lines 343-366; a None last_trained trains only from 100 samples on *)
_check_retrain(m) ==
    IF ~enable_ml THEN m
    ELSE IF last_trained(m) = NoneDT
    THEN IF m.samples_processed >= MIN_SAMPLES_FOR_ML THEN train(m, clock) ELSE m
    ELSE IF clock - last_trained(m).t > cfg.retrain_period_days * SECONDS_PER_DAY
    THEN train(prune_old_events(m, cfg.retrain_period_days * 2, clock), clock)
    ELSE m

(***************************************************************************)
(* coordinator.py: _async_update_data, from one await to the next.         *)
(* The state of the running tick is a record c: pc (the await it is        *)
(* suspended at), loc (its local variables), the fields the tick assigns   *)
(* (lnt, lntype, lws for _last_notification_time, _last_notification_type, *)
(* _last_welfare_status), the two store documents, the notifications       *)
(* dispatched (out) and the run of welfare statuses (run).                 *)
(***************************************************************************)
Dispatch(category, target) ==
    [category |-> category, target |-> target, holiday |-> holiday_mode,
     snoozed |-> is_snoozed, status |-> None, last |-> None, failed |-> FALSE]

(* notify_service.split(".", 1) of a name given as its characters *)
SplitOnce(name) ==
    IF \E i \in DOMAIN name : name[i] = "."
    THEN LET i == CHOOSE i \in DOMAIN name :
                      name[i] = "." /\ \A j \in 1..(i - 1) : name[j] # "."
         IN  << SubSeq(name, 1, i - 1), SubSeq(name, i + 1, Len(name)) >>
    ELSE << name >>

(* lines 579-662: the tick returns, and its local variables are gone *)
Finish(c) == [c EXCEPT !.pc = "idle", !.loc = IdleTick, !.out = << >>]

(* the fields _save_data reads while the tick holds the state c *)
FieldsOf(c) ==
    [Fields EXCEPT !.last_notification_time = c.lnt,
                   !.last_notification_type = c.lntype,
                   !.last_welfare_status = c.lws]

(* line 576 up to the await of line 338 *)
GoSave(c) ==
    [c EXCEPT !.store = << StorageData(FieldsOf(c)) >>,
              !.saved = << Persistent(FieldsOf(c)) >>,
              !.pc = "store_save"]

(* a loop that ends at the first sink whose name lacks the two parts *)
NextSinkUntilMalformed(k) ==
    IF k <= Len(cfg.notify_services) /\ Len(SplitOnce(cfg.notify_services[k])) = 2
    THEN k ELSE 0

(* _send_mobile_notification, lines 926-934: the first sink from the k-th on *)
(* whose name has the two parts, 0 when there is none                        *)
NextSink(k) ==
    IF \E j \in k..Len(cfg.notify_services) : Len(SplitOnce(cfg.notify_services[j])) = 2
    THEN CHOOSE j \in k..Len(cfg.notify_services) :
             /\ Len(SplitOnce(cfg.notify_services[j])) = 2
             /\ \A i \in k..(j - 1) : Len(SplitOnce(cfg.notify_services[i])) # 2
    ELSE 0

(* a sender that does not compare with the last status *)
NotifiesWhenConcerning(current_welfare, last_welfare_status_) ==
    current_welfare \in {WELFARE_ALERT, WELFARE_CONCERN}

(* lines 571 and 822-824: the welfare status is notified *)
NotifiesWelfare(current_welfare, last_welfare_status_) ==
    /\ current_welfare # last_welfare_status_
    /\ current_welfare \in {WELFARE_ALERT, WELFARE_CONCERN}

(* the run of eligible ticks with one welfare status, after one more tick *)
RunAfter(run, current_welfare, sends) ==
    [status |-> current_welfare,
     sent |-> (IF run.status = current_welfare THEN run.sent ELSE 0)
              + (IF sends THEN 1 ELSE 0)]

(* lines 569-573 and 818-869 for the status computed at line 569 *)
WelfareStage(c, current_welfare) ==
    IF NotifiesWelfare(current_welfare, c.lws)
    THEN [c EXCEPT
             !.loc.welfare = current_welfare,
             !.run = RunAfter(@, current_welfare, TRUE),
             !.out = Append(@, [Dispatch("welfare", "persistent_notification") EXCEPT
                                   !.status = current_welfare, !.last = c.lws]),
             !.pc = "welfare_persistent"]
    ELSE [c EXCEPT
             !.loc.welfare = current_welfare,
             !.run = RunAfter(@, current_welfare, FALSE),
             !.lws = IF current_welfare # @ THEN current_welfare ELSE @,
             !.pc = "save"]

(* the call of line 939 for the sink j, or the return of the sender *)
MobileStage(c, j) ==
    IF j = 0
    THEN [c EXCEPT !.pc = IF c.loc.category = "statistical" THEN "ml"
                          ELSE IF c.loc.category = "ml" THEN "welfare"
                          ELSE "save",
                   !.lws = IF c.loc.category = "welfare" THEN c.loc.welfare ELSE @]
    ELSE [c EXCEPT !.out = Append(@, [Dispatch(c.loc.category, cfg.notify_services[j])
                                         EXCEPT !.status = c.loc.welfare, !.last = c.lws]),
                   !.loc.sink = j,
                   !.pc = "mobile_call"]

(* one stage of the tick: c.pc is the place of the code the tick is at *)
Stage(c) ==
    IF c.pc = "stat"
    THEN (* lines 560-561 and 664-716 *)
         IF c.loc.stat_learning_complete /\ c.loc.stat_anomalies # << >>
         THEN [c EXCEPT !.out = Append(@, Dispatch("statistical", "persistent_notification")),
                        !.pc = "stat_persistent"]
         ELSE [c EXCEPT !.pc = "ml"]
    ELSE IF c.pc = "ml"
    THEN (* lines 564-565 and 750-788 *)
         IF c.loc.ml_learning_complete /\ c.loc.ml_anomalies # << >>
         THEN [c EXCEPT !.out = Append(@, Dispatch("ml", "persistent_notification")),
                        !.pc = "ml_persistent"]
         ELSE [c EXCEPT !.pc = "welfare"]
    ELSE IF c.pc = "welfare"
    THEN (* line 568 *)
         IF c.loc.stat_learning_complete \/ c.loc.ml_learning_complete
         THEN WelfareStage(c, get_welfare_status(analyzer, clock).status)
         ELSE [c EXCEPT !.run = NoRun, !.pc = "save"]
    ELSE IF c.pc = "mobile"
    THEN MobileStage(c, NextSink(c.loc.sink + 1))
    ELSE GoSave(c)

(* the places where the tick is suspended in an await *)
Awaits ==
    {"stat_persistent", "ml_persistent", "welfare_persistent", "mobile_call",
     "store_save", "ml_store_save"}

RECURSIVE Proceed(_)
(* the tick runs from the place c.pc to its next await *)
Proceed(c) == IF c.pc \in Awaits THEN c ELSE Proceed(Stage(c))

(* lines 727-728, 799-800 and 880-881 *)
Track(c, category) ==
    [c EXCEPT !.lnt = now_local, !.lntype = category,
              !.loc.category = category, !.loc.sink = 0, !.pc = "mobile"]

(* the tick resumes after the await it is suspended at *)
Resume(c) ==
    IF c.pc \in {"stat_persistent", "ml_persistent", "welfare_persistent"}
    THEN Track(c, IF c.pc = "stat_persistent" THEN "statistical"
                  ELSE IF c.pc = "ml_persistent" THEN "ml" ELSE "welfare")
    ELSE IF c.pc = "mobile_call" THEN [c EXCEPT !.pc = "mobile"]
    ELSE IF c.pc = "store_save" /\ enable_ml
    THEN [c EXCEPT !.ml_store = << MLToDict(ml) >>, !.pc = "ml_store_save"]
    ELSE [c EXCEPT !.pc = "return"]

(* the tick after it resumed and ran to its next await or to its return *)
Continue(c) == IF c.pc = "return" THEN Finish(c) ELSE Proceed(c)

(***************************************************************************)
(* The configuration entry, the events of the bus and the clock            *)
(***************************************************************************)
MonitoredEntities == {"sensor.a", "sensor.b"}
NotifyServices == << <<"notify", ".", "phone">>, <<"phone">> >>

SECONDS_PER_WEEK == DAYS_IN_WEEK * SECONDS_PER_DAY
(* the first instant of the model: 09:00 UTC on the Monday of week 6 *)
StartClock == 6 * SECONDS_PER_WEEK + 9 * 3600
ClockSteps == {3600, SECONDS_PER_WEEK}

Config(ml_requested, enable_notifications, track_attributes) ==
    [ml_requested |-> ml_requested, ml_available |-> TRUE,
     enable_notifications |-> enable_notifications,
     track_attributes |-> track_attributes, notify_services |-> NotifyServices,
     monitored_entities |-> MonitoredEntities, sensitivity |-> "medium",
     learning_period |-> 7, retrain_period_days |-> 14, ml_learning_period_days |-> 7,
     cross_sensor_window |-> 300]

(* ml_analyzer.py lines 14-20: the import of river failed, ML_AVAILABLE is False *)
WithoutRuntime(c) == [c EXCEPT !.ml_available = FALSE]

(* the installations the model starts from: the entry's data, the time zone of *)
(* Home Assistant and whether the stores hold the documents of an earlier run  *)
(* ("new": the documents _save_data writes; "old": the analyzer document alone, *)
(* as earlier versions wrote it; "none")                                       *)
Installations ==
    { [cfg |-> Config(TRUE, TRUE, TRUE), tz |-> 0, stored |-> "new"],
      [cfg |-> WithoutRuntime(Config(TRUE, TRUE, FALSE)), tz |-> 3600, stored |-> "none"],
      [cfg |-> Config(FALSE, TRUE, FALSE), tz |-> 3600, stored |-> "old"] }

(* a State of Home Assistant, << >> for None *)
NoState == << >>
HAState(state, attributes) == << [state |-> state, attributes |-> attributes] >>
BusEvent(entity_id, old_state, new_state) ==
    [entity_id |-> entity_id, old_state |-> old_state, new_state |-> new_state]
(* a change of state of each entity, and for sensor.a a first state, a change *)
(* of an attribute only and no change at all                                  *)
BusEvents ==
    { BusEvent(e, HAState("off", 0), HAState("on", 0)) : e \in Entities }
    \cup { BusEvent("sensor.a", NoState, HAState("on", 0)),
           BusEvent("sensor.a", HAState("on", 1), HAState("on", 0)),
           BusEvent("sensor.a", HAState("on", 0), HAState("on", 0)) }

SnoozeKeys == {"off", "1_hour"}

(* dict.get(key, default) *)
Get(d, key, default) == IF key \in DOMAIN d THEN d[key] ELSE default

NoSetup == [loaded |-> FALSE, lws |-> None, ticked |-> FALSE]
NoCall == [dropped_in_holiday |-> FALSE, recorded_in_snooze |-> FALSE]

(***************************************************************************)
(* coordinator.py: __init__                                                *)
(***************************************************************************)
Constructed(c) ==
    /\ cfg' = c
    /\ phase' = "constructed"
    /\ analyzer' = PatternAnalyzer(SENSITIVITY_THRESHOLDS[c.sensitivity], c.learning_period)
    /\ ml' = NewMLAnalyzer(c)
    /\ holiday_mode' = FALSE
    /\ snooze_until' = NoneDT
    /\ last_welfare_status' = None
    /\ last_notification_time' = NoneDT
    /\ last_notification_type' = None
    /\ recent_events' = << >>
    /\ recent_anomalies' = << >>
    /\ recent_ml_anomalies' = << >>
    /\ pc' = "idle"
    /\ tick' = IdleTick
    /\ sent' = << >>
    /\ handled' = NoCall
    /\ setup_info' = NoSetup

(***************************************************************************)
(* The earlier run whose documents an installation may start from: fifty   *)
(* times sensor.a and, five seconds later, sensor.b, every ten minutes     *)
(* from 09:00 on the Monday of week 0, and once more on the Monday of week *)
(* 5; a tick one hour later, when the retraining is due, prunes the events *)
(* of week 0 and cannot train on the two that are left.                    *)
(***************************************************************************)
PriorEvents == 2 * 50 + 2
PriorEventTime(i) ==
    LET pair == (i - 1) \div 2
        base == IF i <= 100 THEN 9 * 3600 + pair * 600 ELSE 5 * SECONDS_PER_WEEK + 9 * 3600
    IN  DateTime(base + (IF i % 2 = 0 THEN 5 ELSE 0), 0)
PriorEventEntity(i) == IF i % 2 = 0 THEN "sensor.b" ELSE "sensor.a"

RECURSIVE PriorRun(_, _, _)
(* the two analyzers after _handle_state_changed recorded the events lo .. hi *)
PriorRun(r, lo, hi) ==
    IF lo > hi THEN r
    ELSE IF lo = hi
    THEN [analyzer |-> record_state_change(r.analyzer, PriorEventEntity(lo), PriorEventTime(lo)),
          ml |-> record_event(r.ml, PriorEventEntity(lo), PriorEventTime(lo), "off", "on")]
    ELSE LET mid == (lo + hi) \div 2
             first == PriorRun(r, lo, mid)
         IN  IF Evaluated(first) THEN PriorRun(first, mid + 1, hi) ELSE first

PriorRetrainClock == 5 * SECONDS_PER_WEEK + 10 * 3600
PriorState ==
    LET c == Config(TRUE, TRUE, TRUE)
        r == PriorRun([analyzer |-> PatternAnalyzer(SENSITIVITY_THRESHOLDS[c.sensitivity],
                                                    c.learning_period),
                       ml |-> NewMLAnalyzer(c)], 1, PriorEvents)
    IN  [analyzer |-> r.analyzer,
         ml |-> train(prune_old_events(r.ml, c.retrain_period_days * 2, PriorRetrainClock),
                      PriorRetrainClock)]
PriorFields ==
    [analyzer |-> PriorState.analyzer, last_notification_time |-> NoneDT,
     last_notification_type |-> None, last_welfare_status |-> None,
     holiday_mode |-> FALSE, snooze_until |-> NoneDT]
PriorStore == << StorageData(PriorFields) >>
PriorMLStore == << MLToDict(PriorState.ml) >>
(* the statistical document of a version that saved analyzer.to_dict() alone *)
PriorOldStore == << AnalyzerToDict(PriorState.analyzer) >>

Init ==
    /\ \E inst \in Installations :
          /\ cfg = inst.cfg
          /\ tz = inst.tz
          /\ store = IF inst.stored = "new" THEN PriorStore
                     ELSE IF inst.stored = "old" THEN PriorOldStore ELSE << >>
          /\ ml_store = IF inst.stored = "new" THEN PriorMLStore ELSE << >>
          /\ saved_state = IF inst.stored = "none" THEN << >>
                           ELSE << Persistent(PriorFields) >>
    /\ clock = StartClock
    /\ phase = "constructed"
    /\ analyzer = NewAnalyzer
    /\ ml = NewMLAnalyzer(cfg)
    /\ holiday_mode = FALSE
    /\ snooze_until = NoneDT
    /\ last_welfare_status = None
    /\ last_notification_time = NoneDT
    /\ last_notification_type = None
    /\ recent_events = << >>
    /\ recent_anomalies = << >>
    /\ recent_ml_anomalies = << >>
    /\ pc = "idle"
    /\ tick = IdleTick
    /\ sent = << >>
    /\ welfare_run = NoRun
    /\ handled = NoCall
    /\ setup_info = NoSetup
    /\ budget = 0
    /\ probe = NoProbe
    /\ journal = << >>

(***************************************************************************)
(* coordinator.py: async_setup                                             *)
(***************************************************************************)
(* a restore that takes the persisted snooze whatever the time of the load *)
RestoredSnoozeUnchecked(f, snooze_until_str) ==
    IF snooze_until_str = NoneDT THEN f.snooze_until
    ELSE FromIsoFormat(snooze_until_str)

(* lines 226-237: the snooze is restored if it has not expired *)
RestoredSnooze(f, snooze_until_str) ==
    IF snooze_until_str = NoneDT THEN f.snooze_until
    ELSE IF FromIsoFormat(snooze_until_str).t > clock
    THEN FromIsoFormat(snooze_until_str)
    ELSE NoneDT

(* a load that reads the wrapped document only *)
LoadStoredWrapped(f, stored_data) ==
    IF "analyzer" \in DOMAIN stored_data
    THEN LET coordinator_state == Get(stored_data, "coordinator", EmptyDict)
             last_notif_time == Get(coordinator_state, "last_notification_time", NoneDT)
             snooze_until_str == Get(coordinator_state, "snooze_until", NoneDT)
         IN  [analyzer |-> AnalyzerFromDict(stored_data.analyzer,
                                            SENSITIVITY_THRESHOLDS[cfg.sensitivity],
                                            cfg.learning_period),
              last_notification_time |->
                  IF last_notif_time # NoneDT THEN FromIsoFormat(last_notif_time)
                  ELSE f.last_notification_time,
              last_notification_type |-> Get(coordinator_state, "last_notification_type", None),
              last_welfare_status |-> Get(coordinator_state, "last_welfare_status", None),
              holiday_mode |-> Get(coordinator_state, "holiday_mode", FALSE),
              snooze_until |-> RestoredSnooze(f, snooze_until_str)]
    ELSE f

(* lines 205-259: the fields after the statistical document is loaded *)
LoadStored(f, stored_data) ==
    IF "analyzer" \in DOMAIN stored_data
    THEN LET coordinator_state == Get(stored_data, "coordinator", EmptyDict)
             last_notif_time == Get(coordinator_state, "last_notification_time", NoneDT)
             snooze_until_str == Get(coordinator_state, "snooze_until", NoneDT)
         IN  [analyzer |-> AnalyzerFromDict(stored_data.analyzer,
                                            SENSITIVITY_THRESHOLDS[cfg.sensitivity],
                                            cfg.learning_period),
              last_notification_time |->
                  IF last_notif_time # NoneDT THEN FromIsoFormat(last_notif_time)
                  ELSE f.last_notification_time,
              last_notification_type |-> Get(coordinator_state, "last_notification_type", None),
              last_welfare_status |-> Get(coordinator_state, "last_welfare_status", None),
              holiday_mode |-> Get(coordinator_state, "holiday_mode", FALSE),
              snooze_until |-> RestoredSnooze(f, snooze_until_str)]
    ELSE [f EXCEPT !.analyzer = AnalyzerFromDict(stored_data,
                                                 SENSITIVITY_THRESHOLDS[cfg.sensitivity],
                                                 cfg.learning_period)]

AsyncSetup ==
    /\ phase = "constructed"
    /\ LET f == IF store # << >> THEN LoadStored(Fields, store[1]) ELSE Fields
       IN  /\ analyzer' = f.analyzer
           /\ last_notification_time' = f.last_notification_time
           /\ last_notification_type' = f.last_notification_type
           /\ last_welfare_status' = f.last_welfare_status
           /\ holiday_mode' = f.holiday_mode
           /\ snooze_until' = f.snooze_until
           /\ setup_info' = [loaded |-> store # << >>,
                             lws |-> IF saved_state # << >>
                                     THEN saved_state[1].last_welfare_status ELSE None,
                             ticked |-> FALSE]
    /\ ml' = IF enable_ml /\ ml_store # << >>
             THEN _check_retrain(MLFromDict(ml_store[1], cfg.ml_available,
                                            ML_CONTAMINATION[cfg.sensitivity],
                                            cfg.cross_sensor_window, clock))
             ELSE ml
    /\ phase' = "running"
    /\ UNCHANGED <<probe, journal, clock, tz, cfg, recent_events, recent_anomalies, recent_ml_anomalies,
                   store, ml_store, pc, tick, sent, welfare_run,
                   saved_state, handled, budget>>

(***************************************************************************)
(* coordinator.py: _handle_state_changed                                   *)
(***************************************************************************)
(* a handler without the test of line 407 *)
NeverIgnores(holiday) == FALSE

(* line 407 *)
IgnoresAllEvents(holiday) == holiday

(* a filter that, with attribute tracking, does not compare the attributes *)
OutcomeWithoutAttributeTest(event) ==
    IF IgnoresAllEvents(holiday_mode) THEN "holiday"
    ELSE IF event.entity_id \notin cfg.monitored_entities THEN "unmonitored"
    ELSE IF event.old_state = NoState \/ event.new_state = NoState THEN "none_state"
    ELSE IF event.old_state[1].state = event.new_state[1].state /\ ~cfg.track_attributes
    THEN "state_only"
    ELSE "recorded"

(* lines 407-455: why the event is dropped, or "recorded" *)
Outcome(event) ==
    IF IgnoresAllEvents(holiday_mode) THEN "holiday"
    ELSE IF event.entity_id \notin cfg.monitored_entities THEN "unmonitored"
    ELSE IF event.old_state = NoState \/ event.new_state = NoState THEN "none_state"
    ELSE IF event.old_state[1].state = event.new_state[1].state
    THEN IF ~cfg.track_attributes THEN "state_only"
         ELSE IF event.old_state[1].attributes = event.new_state[1].attributes
         THEN "identical"
         ELSE "recorded"
    ELSE "recorded"

(* a handler that records the pattern whether snoozed or not *)
AlwaysRecords(snoozed) == TRUE

(* lines 463-465 *)
RecordsPattern(snoozed) == ~snoozed

(* lines 478-482 *)
AppendRecent(events, ml_event) ==
    LET cutoff == ml_event.timestamp.t - cfg.cross_sensor_window * 2
    IN  SelectSeq(Append(events, ml_event), LAMBDA e : e.timestamp.t >= cutoff)

HandleStateChanged(event) ==
    /\ phase = "running"
    /\ LET outcome == Outcome(event)
           timestamp == now_local
           snoozed == is_snoozed
           ml_event == StateChangeEvent(event.entity_id, timestamp,
                                        event.old_state[1].state, event.new_state[1].state)
       IN  /\ handled' = [dropped_in_holiday |->
                              handled.dropped_in_holiday \/ outcome = "holiday",
                          recorded_in_snooze |->
                              handled.recorded_in_snooze
                              \/ (outcome = "recorded" /\ snoozed)]
           /\ IF outcome # "recorded"
              THEN UNCHANGED <<analyzer, ml, recent_events, budget>>
              ELSE /\ budget < MaxCalls
                   /\ budget' = budget + 1
                   /\ analyzer' = IF RecordsPattern(snoozed)
                                  THEN record_state_change(analyzer, event.entity_id, timestamp)
                                  ELSE analyzer
                   /\ IF enable_ml
                      THEN /\ recent_events' = AppendRecent(recent_events, ml_event)
                           /\ ml' = IF ~snoozed
                                    THEN record_event(ml, event.entity_id, timestamp,
                                                      ml_event.old_state, ml_event.new_state)
                                    ELSE ml
                      ELSE UNCHANGED <<ml, recent_events>>
    /\ UNCHANGED <<probe, journal, clock, tz, cfg, phase, holiday_mode, snooze_until, last_welfare_status,
                   last_notification_time, last_notification_type, recent_anomalies,
                   recent_ml_anomalies, store, ml_store, pc, tick, sent, welfare_run,
                   saved_state, setup_info>>

(***************************************************************************)
(* coordinator.py: the services, each with the _save_data it awaits        *)
(***************************************************************************)
(* lines 317-341 for a coordinator with the fields f *)
SaveData(f) ==
    /\ store' = << StorageData(f) >>
    /\ saved_state' = << Persistent(f) >>
    /\ ml_store' = IF enable_ml THEN << MLToDict(ml) >> ELSE ml_store

ServiceFrame ==
    /\ phase = "running"
    /\ budget < MaxCalls
    /\ budget' = budget + 1
    /\ UNCHANGED <<probe, journal, clock, tz, cfg, phase, analyzer, ml, last_welfare_status,
                   last_notification_time, last_notification_type, recent_events,
                   recent_anomalies, recent_ml_anomalies, pc, tick, sent,
                   welfare_run, handled, setup_info>>

EnableHolidayMode ==
    /\ ServiceFrame
    /\ holiday_mode' = TRUE
    /\ SaveData([Fields EXCEPT !.holiday_mode = TRUE])
    /\ UNCHANGED snooze_until

DisableHolidayMode ==
    /\ ServiceFrame
    /\ holiday_mode' = FALSE
    /\ SaveData([Fields EXCEPT !.holiday_mode = FALSE])
    /\ UNCHANGED snooze_until

(* async_snooze, which is async_clear_snooze for a duration of 0 *)
SnoozeUntil(duration_key) ==
    LET duration_seconds == Get(SNOOZE_DURATIONS, duration_key, 0)
    IN  IF duration_seconds = 0 THEN NoneDT
        ELSE DateTime(clock + duration_seconds, tz)

Snooze(duration_key) ==
    /\ ServiceFrame
    /\ snooze_until' = SnoozeUntil(duration_key)
    /\ SaveData([Fields EXCEPT !.snooze_until = SnoozeUntil(duration_key)])
    /\ UNCHANGED holiday_mode

ClearSnooze ==
    /\ ServiceFrame
    /\ snooze_until' = NoneDT
    /\ SaveData([Fields EXCEPT !.snooze_until = NoneDT])
    /\ UNCHANGED holiday_mode

AsyncShutdown ==
    /\ phase = "running"
    /\ pc = "idle"
    /\ budget < MaxCalls
    /\ budget' = budget + 1
    /\ phase' = "stopped"
    /\ SaveData(Fields)
    /\ UNCHANGED <<probe, journal, clock, tz, cfg, analyzer, ml, holiday_mode, snooze_until,
                   last_welfare_status, last_notification_time, last_notification_type,
                   recent_events, recent_anomalies, recent_ml_anomalies, pc, tick,
                   sent, welfare_run, handled, setup_info>>

(* the entry is set up again: a new coordinator over the same two stores *)
Restart ==
    /\ phase = "stopped"
    /\ Constructed(cfg)
    /\ UNCHANGED <<probe, journal, clock, tz, store, ml_store, welfare_run, saved_state, budget>>

Advance(d) ==
    /\ pc = "idle"
    /\ budget < MaxCalls
    /\ budget' = budget + 1
    /\ clock' = clock + d
    /\ UNCHANGED <<probe, journal, tz, cfg, phase, analyzer, ml, holiday_mode, snooze_until,
                   last_welfare_status, last_notification_time, last_notification_type,
                   recent_events, recent_anomalies, recent_ml_anomalies, store, ml_store,
                   pc, tick, sent, welfare_run, saved_state, handled,
                   setup_info>>

(***************************************************************************)
(* coordinator.py: _async_update_data, its start and its resumptions       *)
(***************************************************************************)
(* a tick that skips in holiday mode only *)
SkipOnHolidayOnly(holiday, snoozed) == holiday

(* line 509 *)
skip_anomaly_detection(holiday, snoozed) == holiday \/ snoozed

RECURSIVE CheckRecent(_, _, _, _)
(* lines 526-529 over the first k of the checked events: the analyzer after  *)
(* the calls of check_anomaly and their results; flagged are the events that *)
(* the model scores above the threshold                                      *)
CheckRecent(m, events, flagged, k) ==
    IF k = 0 THEN [ml |-> m, anomalies |-> << >>]
    ELSE LET prev == CheckRecent(m, events, flagged, k - 1)
         IN  [ml |-> CheckAnomalyState(prev.ml, events[k]),
              anomalies |-> prev.anomalies
                            \o check_anomaly(prev.ml, events[k], k \in flagged)]

(* the gate without the elapsed learning period *)
MLLearningCompleteWhenTrained(m) == enable_ml /\ is_trained(m)

(* lines 550-557 *)
MLLearningComplete(m) ==
    /\ enable_ml
    /\ is_trained(m)
    /\ first_event_time(m) # NoneDT
    /\ clock - first_event_time(m).t >= cfg.ml_learning_period_days * SECONDS_PER_DAY

(* the coordinator after the step of the tick that ends in the state c *)
Commit(c) ==
    /\ pc' = c.pc
    /\ tick' = c.loc
    /\ last_notification_time' = c.lnt
    /\ last_notification_type' = c.lntype
    /\ last_welfare_status' = c.lws
    /\ store' = c.store
    /\ ml_store' = c.ml_store
    /\ saved_state' = c.saved
    /\ sent' = c.out
    /\ welfare_run' = c.run

Context(loc, out) ==
    [pc |-> pc, loc |-> loc, lnt |-> last_notification_time,
     lntype |-> last_notification_type, lws |-> last_welfare_status,
     store |-> store, ml_store |-> ml_store, saved |-> saved_state,
     out |-> out, run |-> welfare_run]

(* lines 526-535: the analyzer after the checks, and the ML anomalies *)
WithCrossSensor(checked) ==
    [ml |-> checked.ml,
     anomalies |-> checked.anomalies
                   \o check_cross_sensor_anomalies(checked.ml, recent_events, clock)]

(* self._recent_events[-10:] *)
Last10 == SubSeq(recent_events, Max(1, Len(recent_events) - 9), Len(recent_events))

(* lines 522-535, for the analyzer m that _check_retrain leaves *)
MLDetection(m, flagged) ==
    IF is_trained(m) THEN WithCrossSensor(CheckRecent(m, Last10, flagged, Len(Last10)))
    ELSE [ml |-> m, anomalies |-> << >>]

(* the local variables of the tick when it reaches line 560 or 576 *)
TickLocals(skip, stat_anomalies, detection) ==
    [IdleTick EXCEPT
        !.holiday_at_start = holiday_mode,
        !.snoozed_at_start = is_snoozed,
        !.first_after_load = setup_info.loaded /\ ~setup_info.ticked,
        !.skip = skip,
        !.ran_stat = ~skip,
        !.ran_ml = enable_ml /\ ~skip,
        !.stat_anomalies = stat_anomalies,
        !.ml_anomalies = detection.anomalies,
        !.stat_learning_complete =
            cfg.enable_notifications /\ ~skip /\ is_learning_complete(analyzer, clock),
        !.ml_learning_complete =
            cfg.enable_notifications /\ ~skip /\ MLLearningComplete(detection.ml)]

(* line 545: the tick goes on to the notifications, or to the save of line 576 *)
Enter(c, notifies) ==
    [c EXCEPT !.pc = IF notifies THEN "stat" ELSE "save",
              !.run = IF notifies THEN @ ELSE NoRun]

(* lines 509-576, up to the first await that suspends *)
TickStart ==
    /\ phase = "running"
    /\ pc = "idle"
    /\ \E flagged \in SUBSET (1..Len(Last10)) :
       \E skip \in {skip_anomaly_detection(holiday_mode, is_snoozed)} :
       \E stat_anomalies \in {IF skip THEN << >>
                              ELSE check_for_anomalies(analyzer, clock, NoneDT)} :
       \E detection \in {IF enable_ml /\ ~skip
                         THEN MLDetection(_check_retrain(ml), flagged)
                         ELSE [ml |-> ml, anomalies |-> << >>]} :
           /\ ml' = detection.ml
           /\ recent_anomalies' = IF stat_anomalies # << >> THEN stat_anomalies
                                  ELSE recent_anomalies
           /\ recent_ml_anomalies' = IF detection.anomalies # << >> THEN detection.anomalies
                                     ELSE recent_ml_anomalies
           /\ Commit(Proceed(Enter(Context(TickLocals(skip, stat_anomalies, detection),
                                           << >>),
                                   cfg.enable_notifications /\ ~skip)))
    /\ setup_info' = [setup_info EXCEPT !.ticked = TRUE]
    /\ UNCHANGED <<probe, journal, clock, tz, cfg, phase, analyzer, holiday_mode, snooze_until,
                   recent_events, handled, budget>>

(* lines 938-946: the call of a sink returned, or raised and was caught; the *)
(* tick goes on in both cases                                                *)
Called(c, raised) ==
    IF raised THEN [c EXCEPT !.out[Len(c.out)].failed = TRUE] ELSE c

TickResume ==
    /\ pc # "idle"
    /\ \E raised \in (IF pc = "mobile_call" THEN BOOLEAN ELSE {FALSE}) :
          Commit(Continue(Resume(Called(Context(tick, sent), raised))))
    /\ UNCHANGED <<probe, journal, clock, tz, cfg, phase, analyzer, ml, holiday_mode, snooze_until,
                   recent_events, recent_anomalies, recent_ml_anomalies, handled,
                   setup_info, budget>>

Next ==
    \/ AsyncSetup
    \/ \E event \in BusEvents : HandleStateChanged(event)
    \/ TickStart
    \/ TickResume
    \/ EnableHolidayMode
    \/ DisableHolidayMode
    \/ \E duration_key \in SnoozeKeys : Snooze(duration_key)
    \/ ClearSnooze
    \/ AsyncShutdown
    \/ Restart
    \/ \E d \in ClockSteps : Advance(d)

Spec == Init /\ [][Next]_vars


(***************************************************************************)
(* Properties of the coordinator, under Spec                               *)
(***************************************************************************)
(* the notifications of the category that the running tick has dispatched *)
SentOf(category) == { i \in DOMAIN sent : sent[i].category = category }

(* the handler ran for the event, which it accepted while snoozed *)
AcceptedWhileSnoozed(event) ==
    /\ is_snoozed
    /\ ~holiday_mode
    /\ Outcome(event) = "recorded"
    /\ HandleStateChanged(event)

(* the event is the last of the window after the step *)
LastOfWindow(event) ==
    /\ recent_events' # << >>
    /\ recent_events'[Len(recent_events')].entity_id = event.entity_id
    /\ recent_events'[Len(recent_events')].timestamp = now_local
    /\ recent_events'[Len(recent_events')].new_state = event.new_state[1].state

(* the window before the last event is the old window, less the events *)
(* older than twice the cross-sensor window                             *)
RestOfWindow ==
    SubSeq(recent_events', 1, Len(recent_events') - 1)
        = SelectSeq(recent_events,
                    LAMBDA e : e.timestamp.t >= clock - 2 * cfg.cross_sensor_window)

(* C1: while holiday_mode is true, _handle_state_changed drops every event, *)
(* whatever its entity and states: the patterns and counts of the           *)
(* analyzer, the ML analyzer and the recent-event window keep their values  *)
(* over every call, hence over any number of calls.                         *)
C1_HolidayDropsEvents ==
    [][(holiday_mode /\ \E event \in BusEvents : HandleStateChanged(event))
           => UNCHANGED <<analyzer, ml, recent_events>>]_vars

(* an event arrived in holiday mode and was dropped *)
C1_Witness ==
    /\ holiday_mode
    /\ phase = "running"
    /\ handled.dropped_in_holiday

(* C2: on a tick taken while holiday_mode is true or while snoozed, neither *)
(* the statistical detection nor the ML and cross-sensor detection runs,    *)
(* and no notification of any category is sent.                             *)
C2_SkippedTickIsSilent ==
    (tick.holiday_at_start \/ tick.snoozed_at_start) =>
        /\ ~tick.ran_stat
        /\ ~tick.ran_ml
        /\ tick.stat_anomalies = << >>
        /\ tick.ml_anomalies = << >>
        /\ sent = << >>

(* a snoozed tick went to its save although the detector would report *)
C2_Witness ==
    /\ pc = "store_save"
    /\ tick.snoozed_at_start
    /\ ~tick.holiday_at_start
    /\ cfg.enable_notifications
    /\ check_for_anomalies(analyzer, clock, NoneDT) # << >>
    /\ sent = << >>

(* C3 as stated: while snoozed and not in holiday mode, an accepted event   *)
(* of a monitored entity is appended to the recent-event window and the     *)
(* analyzer and the ML analyzer keep their values.                          *)
C3_AppendsToWindowOnly ==
    [][\A event \in BusEvents :
           AcceptedWhileSnoozed(event) =>
               /\ LastOfWindow(event)
               /\ UNCHANGED <<analyzer, ml>>]_vars

(* C3: while snoozed and not in holiday mode, an accepted event of a        *)
(* monitored entity leaves the analyzer and the ML analyzer as they are;    *)
(* with ML enabled it is appended to the recent-event window, from which    *)
(* the events older than twice the cross-sensor window are dropped; with    *)
(* ML disabled the window too is left as it is.                             *)
C3_SnoozedEventOnlyFeedsWindow ==
    [][\A event \in BusEvents :
           AcceptedWhileSnoozed(event) =>
               /\ UNCHANGED <<analyzer, ml>>
               /\ IF enable_ml THEN LastOfWindow(event) /\ RestOfWindow
                  ELSE UNCHANGED recent_events]_vars

(* an event was accepted while snoozed, with ML enabled, and is in the window *)
C3_Witness ==
    /\ handled.recorded_in_snooze
    /\ enable_ml
    /\ is_snoozed
    /\ recent_events # << >>
    /\ ml.events = PriorState.ml.events

(* C4: a welfare notification goes out on a tick only when the status       *)
(* computed on it differs from last_welfare_status and is concern or alert; *)
(* when the tick reaches its save, last_welfare_status is the computed      *)
(* status; and over a run of consecutive eligible ticks with one status at  *)
(* most one welfare notification is sent.                                   *)
C4_WelfareNotifiedOnce ==
    /\ \A i \in SentOf("welfare") :
           /\ sent[i].status = tick.welfare
           /\ sent[i].status \in {WELFARE_CONCERN, WELFARE_ALERT}
           /\ sent[i].status # sent[i].last
    /\ (pc \in {"store_save", "ml_store_save"} /\ tick.welfare # None) =>
           last_welfare_status = tick.welfare
    /\ welfare_run.sent <= 1

(* a later tick of a run computed the status already notified in the run, *)
(* and sent nothing for it                                                *)
C4_Witness ==
    /\ pc = "store_save"
    /\ tick.welfare = WELFARE_ALERT
    /\ SentOf("welfare") = {}
    /\ welfare_run = [status |-> WELFARE_ALERT, sent |-> 1]
    /\ ~tick.first_after_load

(* C6 as stated: whatever runs while the tick is suspended, no notification *)
(* is dispatched at a moment when holiday_mode is true.                     *)
C6_NoDispatchInHolidayMode ==
    \A i \in DOMAIN sent : ~sent[i].holiday

(* C7: async_setup from a saved document restores last_notification_time,   *)
(* last_notification_type, last_welfare_status and holiday_mode to their    *)
(* values at the save, and the first tick after it sends no welfare         *)
(* notification for the status that was saved.                              *)
C7_RestoredAcrossRestart ==
    [][/\ (AsyncSetup /\ store # << >>) => Persistent(Fields)' = saved_state[1]
       /\ (tick.first_after_load =>
               \A i \in SentOf("welfare") : sent[i].status # setup_info.lws)']_vars

(* after a restart the first tick computed the status notified before it, *)
(* and sent no welfare notification                                       *)
C7_Witness ==
    /\ budget > 0
    /\ setup_info.loaded
    /\ setup_info.lws = WELFARE_ALERT
    /\ tick.first_after_load
    /\ tick.welfare = WELFARE_ALERT
    /\ pc = "store_save"
    /\ SentOf("welfare") = {}

(* the store holds a statistical document without the "analyzer" wrapper key *)
OldFormatStored == store # << >> /\ "analyzer" \notin DOMAIN store[1]

(* C17: async_setup on a stored document without the analyzer wrapper key   *)
(* takes the whole document as the analyzer's: the patterns are those of    *)
(* the document, and last_notification_time, last_notification_type,        *)
(* last_welfare_status, holiday_mode and snooze_until are at their defaults *)
(* after it.                                                                *)
C17_OldFormatLoadsPatterns ==
    [][(OldFormatStored /\ AsyncSetup) =>
           /\ [k \in DOMAIN analyzer'.patterns |-> PatternToDict(analyzer'.patterns[k])]
                  = store[1].patterns
           /\ last_notification_time' = NoneDT
           /\ last_notification_type' = None
           /\ last_welfare_status' = None
           /\ holiday_mode' = FALSE
           /\ snooze_until' = NoneDT]_vars

(* the coordinator runs on the two patterns of a document in the old format *)
C17_Witness ==
    /\ OldFormatStored
    /\ setup_info.loaded
    /\ phase = "running"
    /\ Len(analyzer.patterns) = 2
    /\ analyzer.patterns[1].total_observations > 0
    /\ ~holiday_mode
    /\ last_welfare_status = None

(***************************************************************************)
(* analyzer.py called directly: check_for_anomalies and _get_severity on   *)
(* an analyzer whose patterns, sensitivity and learning time are drawn     *)
(***************************************************************************)
MaxValue == 2
MaxObservations == 2
MaxActual == 3
MaxTwiceZ == 10

RECURSIVE Observed(_, _)
(* the bucket after add_observation of values[1 .. k] *)
Observed(values, k) ==
    IF k = 0 THEN TimeBucket ELSE add_observation(Observed(values, k - 1), values[k])

DetBuckets ==
    { Observed(values, Len(values)) :
          values \in UNION { [1..n -> 0..MaxValue] : n \in 0..MaxObservations } }

(* a pattern first observed at `first` whose bucket of the instant ts is given *)
DetPattern(entity_id, bucket, ts, first) ==
    [EntityPattern(entity_id) EXCEPT
        !.day_buckets[Weekday(ts)][_get_interval_index(ts) + 1] = bucket,
        !.total_observations = bucket.count,
        !.first_observation = first,
        !.last_observation = first]

(* sensor.a with the drawn bucket and, when `both`, sensor.b seen once a week twice *)
DetPatterns(bucket, ts, first, both) ==
    << DetPattern("sensor.a", bucket, ts, first) >>
    \o (IF both THEN << DetPattern("sensor.b", Observed(<<1, 1>>, 2), ts, first) >>
        ELSE << >>)

DetAnalyzer(sensitivity, bucket, ts, first, both) ==
    [PatternAnalyzer(SENSITIVITY_THRESHOLDS[sensitivity], 7) EXCEPT
        !.patterns = DetPatterns(bucket, ts, first, both)]

(* days since the first observation: learning (7 days) unfinished, finished *)
DetAges == {3, 7}

(* the current_interval_activity argument: None, or a dict for sensor.a *)
DetActivities ==
    {NoneDT} \cup { << DictSet(EmptyDict, "sensor.a", k) >> : k \in 0..MaxActual }

InitDet ==
    /\ cfg = Config(FALSE, TRUE, FALSE)
    /\ tz = 0
    /\ store = << >>
    /\ ml_store = << >>
    /\ saved_state = << >>
    /\ clock = StartClock
    /\ phase = "running"
    /\ \E sensitivity \in DOMAIN SENSITIVITY_THRESHOLDS :
       \E bucket \in DetBuckets :
       \E age \in DetAges :
       \E both \in BOOLEAN :
          analyzer = DetAnalyzer(sensitivity, bucket, NowUtc(StartClock),
                                 DateTime(StartClock - age * SECONDS_PER_DAY, 0), both)
    /\ ml = NewMLAnalyzer(cfg)
    /\ holiday_mode = FALSE
    /\ snooze_until = NoneDT
    /\ last_welfare_status = None
    /\ last_notification_time = NoneDT
    /\ last_notification_type = None
    /\ recent_events = << >>
    /\ recent_anomalies = << >>
    /\ recent_ml_anomalies = << >>
    /\ pc = "idle"
    /\ tick = IdleTick
    /\ sent = << >>
    /\ welfare_run = NoRun
    /\ handled = NoCall
    /\ setup_info = NoSetup
    /\ budget = 0
    /\ probe = NoProbe
    /\ journal = << >>

DetFrame ==
    UNCHANGED <<clock, tz, cfg, phase, analyzer, ml, holiday_mode, snooze_until,
                last_welfare_status, last_notification_time, last_notification_type,
                recent_events, recent_anomalies, recent_ml_anomalies, store, ml_store,
                pc, tick, sent, welfare_run, saved_state, handled, setup_info, budget,
                journal>>

(* analyzer.check_for_anomalies(activity) *)
ProbeCheckForAnomalies ==
    /\ \E activity \in DetActivities :
          probe' = [op |-> "check_for_anomalies",
                    activity |-> activity,
                    result |-> check_for_anomalies(analyzer, clock, activity)]
    /\ DetFrame

(* _get_severity(z) for z = twice_z / 2, or for float("inf") *)
ProbeGetSeverity ==
    /\ \E twice_z \in 0..MaxTwiceZ, inf \in BOOLEAN :
          probe' = [op |-> "_get_severity",
                    twice_z |-> twice_z,
                    inf |-> inf,
                    result |-> _get_severity(IF inf THEN ZInf ELSE ZOf(Rat(twice_z, 2)))]
    /\ DetFrame

(* the analyzer with the given counts recorded in the slot of the clock, *)
(* as lines 272-286 leave them                                          *)
WithLiveCounts(an, activity) ==
    [an EXCEPT !.current_interval = _get_interval_index(NowUtc(clock)),
               !.current_interval_day = Weekday(NowUtc(clock)),
               !.current_interval_activity = activity]

(* analyzer.get_entity_status() with the counts of the current slot *)
ProbeEntityStatus ==
    /\ \E activity \in DetActivities \ {NoneDT} :
          probe' = [op |-> "get_entity_status",
                    activity |-> activity,
                    result |-> get_entity_status(WithLiveCounts(analyzer, activity[1]),
                                                 clock)]
    /\ DetFrame

NextDet ==
    \/ ProbeCheckForAnomalies
    \/ ProbeGetSeverity
    \/ ProbeEntityStatus

SpecDet == InitDet /\ [][NextDet]_vars


(***************************************************************************)
(* Properties of check_for_anomalies and _get_severity, under SpecDet      *)
(***************************************************************************)
Checked == probe.op = "check_for_anomalies"

(* the activity map the probed call read: its argument, or the analyzer's own *)
ProbeActivity ==
    IF probe.activity = NoneDT THEN get_current_interval_activity(analyzer, clock)
    ELSE probe.activity[1]

ProbeExpected(i) == get_expected_activity(analyzer.patterns[i], NowUtc(clock))
ProbeActual(i) == DictGet(ProbeActivity, analyzer.patterns[i].entity_id)
(* the anomalies the probed call returned for the i-th pattern *)
ProbeFound(i) ==
    { j \in DOMAIN probe.result :
          probe.result[j].entity_id = analyzer.patterns[i].entity_id }
(* the slot has data: lines 382-383 do not skip the entity *)
HasData(i) == ~(ProbeExpected(i).std_sq.n = 0 /\ ProbeExpected(i).mean.n = 0)
ZeroSpread(i) == ProbeExpected(i).std_sq.n = 0 /\ ProbeExpected(i).mean.n # 0

(* C5: check_for_anomalies returns the empty list whenever learning is not  *)
(* complete, whatever the patterns and the activity map passed to it.       *)
C5_EmptyWhileLearning ==
    (Checked /\ ~is_learning_complete(analyzer, clock)) => probe.result = << >>

(* learning is not complete and the call was given a count that the loop of *)
(* lines 377-424 would report                                               *)
C5_Witness ==
    /\ Checked
    /\ ~is_learning_complete(analyzer, clock)
    /\ probe.activity # NoneDT
    /\ CheckLoop(analyzer, ProbeActivity, NowUtc(clock), Len(analyzer.patterns)) # << >>
    /\ probe.result = << >>

(* C8 as stated: with learning complete, std_dev = 0 and mean # 0, z is     *)
(* +infinity for a count > 0 and sensitivity_threshold + 1 for a count of   *)
(* 0, and the entity is flagged for every count.                            *)
C8_FlaggedForEveryCount ==
    (Checked /\ is_learning_complete(analyzer, clock)) =>
        \A i \in DOMAIN analyzer.patterns :
            ZeroSpread(i) =>
                /\ DetectorZ(analyzer, ProbeExpected(i), ProbeActual(i))
                       = IF ProbeActual(i) > 0 THEN ZInf
                         ELSE ZOf(RInt(analyzer.sensitivity_threshold + 1))
                /\ ProbeFound(i) # {}

(* C8: with learning complete, std_dev = 0 and mean # 0, a count that       *)
(* differs from the mean gets z = +infinity when it is > 0 and              *)
(* sensitivity_threshold + 1 when it is 0, and the entity is flagged with   *)
(* that z; a count equal to the mean gets z = 0 and the entity is not       *)
(* flagged.                                                                 *)
C8_FlaggedUnlessCountIsMean ==
    (Checked /\ is_learning_complete(analyzer, clock)) =>
        \A i \in DOMAIN analyzer.patterns :
            ZeroSpread(i) =>
                IF REq(RInt(ProbeActual(i)), ProbeExpected(i).mean)
                THEN /\ DetectorZ(analyzer, ProbeExpected(i), ProbeActual(i)) = ZOf(RZero)
                     /\ ProbeFound(i) = {}
                ELSE /\ DetectorZ(analyzer, ProbeExpected(i), ProbeActual(i))
                            = IF ProbeActual(i) > 0 THEN ZInf
                              ELSE ZOf(RInt(analyzer.sensitivity_threshold + 1))
                     /\ \E j \in ProbeFound(i) :
                            probe.result[j].z_score
                                = DetectorZ(analyzer, ProbeExpected(i), ProbeActual(i))

(* a slot with std_dev = 0 and mean # 0 was checked with a count of 0 and   *)
(* flagged with z = sensitivity_threshold + 1                               *)
C8_Witness ==
    /\ Checked
    /\ is_learning_complete(analyzer, clock)
    /\ ZeroSpread(1)
    /\ ProbeActual(1) = 0
    /\ \E j \in ProbeFound(1) :
           probe.result[j].z_score = ZOf(RInt(analyzer.sensitivity_threshold + 1))

(* C9: with learning complete, check_for_anomalies returns an anomaly for   *)
(* an entity exactly when the z-score of its current-interval count is      *)
(* strictly above sensitivity_threshold (an entity whose slot has no data   *)
(* has no z-score and no anomaly), once at most, and its type is            *)
(* unusual_activity when actual > mean and unusual_inactivity otherwise.    *)
C9_AnomalyIffAboveThreshold ==
    (Checked /\ is_learning_complete(analyzer, clock)) =>
        \A i \in DOMAIN analyzer.patterns :
            /\ (ProbeFound(i) # {}) <=>
                   (/\ HasData(i)
                    /\ ZGt(DetectorZ(analyzer, ProbeExpected(i), ProbeActual(i)),
                           RInt(analyzer.sensitivity_threshold)))
            /\ Cardinality(ProbeFound(i)) <= 1
            /\ \A j \in ProbeFound(i) :
                   probe.result[j].anomaly_type =
                       IF RLt(ProbeExpected(i).mean, RInt(ProbeActual(i)))
                       THEN "unusual_activity" ELSE "unusual_inactivity"

(* a count whose z-score equals the threshold exactly was checked, with a   *)
(* standard deviation above 0, and not reported                             *)
C9_Witness ==
    /\ Checked
    /\ is_learning_complete(analyzer, clock)
    /\ RLt(RZero, ProbeExpected(1).std_sq)
    /\ DetectorZ(analyzer, ProbeExpected(1), ProbeActual(1))
           = ZOf(RInt(analyzer.sensitivity_threshold))
    /\ ProbeFound(1) = {}

(* C10: the severity of z is normal below 1.5, minor from 1.5 and below     *)
(* 2.5, moderate from 2.5 and below 3.5, significant from 3.5 and below     *)
(* 4.5, critical from 4.5 and for an infinite z: each boundary value is in  *)
(* the higher band.                                                         *)
C10_SeverityBands ==
    probe.op = "_get_severity" =>
        probe.result = IF probe.inf \/ probe.twice_z >= 9 THEN "critical"
                       ELSE IF probe.twice_z >= 7 THEN "significant"
                       ELSE IF probe.twice_z >= 5 THEN "moderate"
                       ELSE IF probe.twice_z >= 3 THEN "minor"
                       ELSE "normal"

(* the severity of the boundary value 2.5 was asked and is moderate *)
C10_Witness ==
    /\ probe.op = "_get_severity"
    /\ ~probe.inf
    /\ probe.twice_z = 5
    /\ probe.result = "moderate"

(***************************************************************************)
(* analyzer.py called directly: the Pattern Store under                    *)
(* record_state_change, its serialization and get_welfare_status.  The     *)
(* store starts from one of a few histories of record_state_change calls   *)
(* and is then given further calls while the clock advances.               *)
(***************************************************************************)
MaxRecords == 2

RecordCall(entity_id, timestamp) == [entity_id |-> entity_id, timestamp |-> timestamp]

RECURSIVE RecordedAll(_, _, _)
(* the analyzer after record_state_change of calls[1 .. k] *)
RecordedAll(an, calls, k) ==
    IF k = 0 THEN an
    ELSE record_state_change(RecordedAll(an, calls, k - 1),
                             calls[k].entity_id, calls[k].timestamp)

(* an instant of week 5, the week before StartClock *)
Week5(day, hour) == DateTime(5 * SECONDS_PER_WEEK + day * SECONDS_PER_DAY + hour * 3600, 0)

(* the histories: none; sensor.a on the Monday of week 5 at 09:00 or at     *)
(* 21:00 and again on its Saturday or Friday at 21:00, seen from 09:15 on   *)
(* the Monday of week 6                                                     *)
StoreHistories ==
    { [calls |-> << >>, now |-> StartClock],
      [calls |-> << RecordCall("sensor.a", Week5(0, 9)), RecordCall("sensor.a", Week5(5, 21)) >>,
       now |-> StartClock + 900],
      [calls |-> << RecordCall("sensor.a", Week5(0, 21)), RecordCall("sensor.a", Week5(5, 21)) >>,
       now |-> StartClock + 900],
      [calls |-> << RecordCall("sensor.a", Week5(0, 21)), RecordCall("sensor.a", Week5(4, 21)) >>,
       now |-> StartClock + 900] }

StoreEntities == {"sensor.a", "sensor.b"}
StoreOffsets == {0, 3600}
StoreSteps == {900, SECONDS_PER_WEEK}

(* documents given to EntityPattern.from_dict: the given days, each a list of n *)
(* buckets that were observed once                                            *)
DayDocs(days, n) ==
    [key \in {DayKey(day) : day \in days} |->
        [i \in 1..n |-> BucketToDict(add_observation(TimeBucket, 1))]]
PatternDoc(day_buckets) ==
    [entity_id |-> "sensor.a", day_buckets |-> day_buckets, total_observations |-> 0,
     first_observation |-> NoneDT, last_observation |-> NoneDT]
(* a document as to_dict writes it, one that misses days, one with short lists, *)
(* one with long lists and one with the extra day key "7"                       *)
StoreDocuments ==
    { PatternDoc(DayDocs(0..(DAYS_IN_WEEK - 1), INTERVALS_PER_DAY)),
      PatternDoc(DayDocs({0}, INTERVALS_PER_DAY)),
      PatternDoc(DayDocs(0..(DAYS_IN_WEEK - 1), 1)),
      PatternDoc(DayDocs(0..(DAYS_IN_WEEK - 1), INTERVALS_PER_DAY + 1)),
      PatternDoc(DayDocs(0..DAYS_IN_WEEK, INTERVALS_PER_DAY)) }

InitStore ==
    /\ cfg = Config(FALSE, TRUE, FALSE)
    /\ tz = 0
    /\ store = << >>
    /\ ml_store = << >>
    /\ saved_state = << >>
    /\ phase = "running"
    /\ \E h \in StoreHistories :
          /\ clock = h.now
          /\ journal = h.calls
          /\ analyzer = RecordedAll(PatternAnalyzer(SENSITIVITY_THRESHOLDS["medium"], 7),
                                    h.calls, Len(h.calls))
    /\ ml = NewMLAnalyzer(cfg)
    /\ holiday_mode = FALSE
    /\ snooze_until = NoneDT
    /\ last_welfare_status = None
    /\ last_notification_time = NoneDT
    /\ last_notification_type = None
    /\ recent_events = << >>
    /\ recent_anomalies = << >>
    /\ recent_ml_anomalies = << >>
    /\ pc = "idle"
    /\ tick = IdleTick
    /\ sent = << >>
    /\ welfare_run = NoRun
    /\ handled = NoCall
    /\ setup_info = NoSetup
    /\ budget = 0
    /\ probe = NoProbe

StoreFrame ==
    UNCHANGED <<tz, cfg, phase, ml, holiday_mode, snooze_until,
                last_welfare_status, last_notification_time, last_notification_type,
                recent_events, recent_anomalies, recent_ml_anomalies, store, ml_store,
                pc, tick, sent, welfare_run, saved_state, handled, setup_info>>

(* analyzer.record_state_change(entity_id, now) with now in the zone of offset off *)
RecordStateChange(entity_id, off) ==
    /\ probe = NoProbe
    /\ budget < MaxRecords
    /\ budget' = budget + 1
    /\ analyzer' = record_state_change(analyzer, entity_id, DateTime(clock, off))
    /\ journal' = Append(journal, RecordCall(entity_id, DateTime(clock, off)))
    /\ probe' = NoProbe
    /\ UNCHANGED clock
    /\ StoreFrame

AdvanceStore(d) ==
    /\ probe = NoProbe
    /\ budget < MaxRecords
    /\ budget' = budget + 1
    /\ clock' = clock + d
    /\ probe' = NoProbe
    /\ UNCHANGED <<analyzer, journal>>
    /\ StoreFrame

(* the direct calls that follow are made on the store as the records left it *)
(* analyzer.get_welfare_status()["status"] *)
ProbeWelfareStatus ==
    /\ probe = NoProbe
    /\ probe' = [op |-> "get_welfare_status",
                 result |-> get_welfare_status(analyzer, clock).status]
    /\ UNCHANGED <<analyzer, journal, clock, budget>>
    /\ StoreFrame

(* PatternAnalyzer.from_dict(analyzer.to_dict()) *)
ProbeRoundTrip ==
    /\ probe = NoProbe
    /\ probe' = [op |-> "round_trip",
                 result |-> AnalyzerFromDict(AnalyzerToDict(analyzer),
                                             AnalyzerToDict(analyzer).sensitivity_threshold,
                                             AnalyzerToDict(analyzer).learning_period_days)]
    /\ UNCHANGED <<analyzer, journal, clock, budget>>
    /\ StoreFrame

(* EntityPattern.from_dict(data) *)
ProbeFromDict(data) ==
    /\ probe = NoProbe
    /\ probe' = [op |-> "from_dict", data |-> data, result |-> PatternFromDict(data)]
    /\ UNCHANGED <<analyzer, journal, clock, budget>>
    /\ StoreFrame

NextStore ==
    \/ \E entity_id \in StoreEntities, off \in StoreOffsets : RecordStateChange(entity_id, off)
    \/ \E d \in StoreSteps : AdvanceStore(d)
    \/ ProbeWelfareStatus
    \/ ProbeRoundTrip
    \/ \E data \in StoreDocuments : ProbeFromDict(data)

SpecStore == InitStore /\ [][NextStore]_vars


(***************************************************************************)
(* Properties of the Pattern Store, under SpecStore                        *)
(***************************************************************************)
(* the three indicators get_welfare_status aggregates *)
ActivityStatus == get_time_since_activity_context(analyzer, clock).status
RoutineStatus == get_routine_progress(analyzer, clock).status
EntitiesAt(status) == Len(WithStatus(get_entity_status(analyzer, clock), status))

(* C11: get_welfare_status is alert if the time-since-activity status is    *)
(* alert or an entity is at alert; otherwise concern if the time-since      *)
(* status is concern or an entity is at concern; otherwise concern if the   *)
(* routine progress is concerning or alert; otherwise check_recommended if  *)
(* the time-since status is check_recommended or more than one entity is    *)
(* at attention; otherwise ok.                                              *)
C11_WelfarePrecedence ==
    probe.op = "get_welfare_status" =>
        probe.result =
            IF ActivityStatus = "alert" \/ EntitiesAt("alert") >= 1 THEN WELFARE_ALERT
            ELSE IF ActivityStatus = "concern" \/ EntitiesAt("concern") >= 1
            THEN WELFARE_CONCERN
            ELSE IF RoutineStatus \in {"concerning", "alert"} THEN WELFARE_CONCERN
            ELSE IF ActivityStatus = "check_recommended" \/ EntitiesAt("attention") > 1
            THEN WELFARE_CHECK
            ELSE WELFARE_OK

(* the time since the last activity recommends a check and the routine      *)
(* progress is at alert, with no entity at concern: the status is concern   *)
C11_Witness ==
    /\ probe.op = "get_welfare_status"
    /\ ActivityStatus = "check_recommended"
    /\ RoutineStatus = "alert"
    /\ EntitiesAt("concern") = 0
    /\ EntitiesAt("alert") = 0
    /\ probe.result = WELFARE_CONCERN

(* the calls of the journal that fell into the bucket *)
TimesRecorded(entity_id, day, interval) ==
    Cardinality({ k \in DOMAIN journal :
                      /\ journal[k].entity_id = entity_id
                      /\ Weekday(journal[k].timestamp) = day
                      /\ _get_interval_index(journal[k].timestamp) = interval })

(* what get_expected_activity returns for a bucket *)
Reported(b) == [mean |-> mean(b), std_sq |-> std_dev_sq(b)]

(* C12: after any sequence of records, a bucket recorded into n >= 1 times  *)
(* has count, sum and sum of squares n and reports mean 1.0 and std_dev     *)
(* 0.0, a bucket never recorded into reports (0, 0), and no std_dev is      *)
(* negative.                                                                *)
C12_RecordedBucketsReportOne ==
    /\ \A i \in DOMAIN analyzer.patterns :
       \A day \in DOMAIN analyzer.patterns[i].day_buckets :
       \A k \in DOMAIN analyzer.patterns[i].day_buckets[day] :
           LET b == analyzer.patterns[i].day_buckets[day][k]
               n == TimesRecorded(analyzer.patterns[i].entity_id, day, k - 1)
           IN  /\ b = [count |-> n, sum_values |-> n, sum_squared |-> n]
               /\ Reported(b) = IF n >= 1 THEN [mean |-> RInt(1), std_sq |-> RZero]
                                ELSE [mean |-> RZero, std_sq |-> RZero]
               /\ RLe(RZero, std_dev_sq(b))
    /\ \A k \in DOMAIN journal :
           /\ journal[k].entity_id \in PatternIds(analyzer)
           /\ get_expected_activity(
                  analyzer.patterns[PatternIndex(analyzer, journal[k].entity_id)],
                  journal[k].timestamp) = [mean |-> RInt(1), std_sq |-> RZero]

(* a bucket was recorded into twice, by two direct calls *)
C12_Witness ==
    /\ budget = 2
    /\ \E i \in DOMAIN analyzer.patterns :
           /\ BucketAt(analyzer.patterns[i], DateTime(clock, 0)).count = 2
           /\ TimesRecorded(analyzer.patterns[i].entity_id, Weekday(DateTime(clock, 0)),
                            _get_interval_index(DateTime(clock, 0))) = 2

(* the pattern of the entity before the call: a new one when it had none *)
PatternBefore(entity_id) ==
    IF entity_id \in PatternIds(analyzer)
    THEN analyzer.patterns[PatternIndex(analyzer, entity_id)]
    ELSE EntityPattern(entity_id)

(* what a record of the entity at ts does to the patterns *)
RecordEffect(entity_id, ts) ==
    LET old == PatternBefore(entity_id)
        new == analyzer'.patterns[PatternIndex(analyzer', entity_id)]
    IN  /\ PatternIds(analyzer') = PatternIds(analyzer) \cup {entity_id}
        /\ \A i \in DOMAIN analyzer.patterns :
               analyzer.patterns[i].entity_id # entity_id =>
                   analyzer'.patterns[i] = analyzer.patterns[i]
        /\ DOMAIN new.day_buckets = DOMAIN old.day_buckets
        /\ \A day \in DOMAIN old.day_buckets :
               /\ Len(new.day_buckets[day]) = Len(old.day_buckets[day])
               /\ \A k \in DOMAIN old.day_buckets[day] :
                      IF day = Weekday(ts) /\ k = _get_interval_index(ts) + 1
                      THEN new.day_buckets[day][k].count = old.day_buckets[day][k].count + 1
                      ELSE new.day_buckets[day][k] = old.day_buckets[day][k]
        /\ new.total_observations = old.total_observations + 1
        /\ new.first_observation =
               IF old.first_observation = NoneDT THEN ts ELSE old.first_observation
        /\ new.last_observation = ts

(* C13: a record increments the count of the one bucket at the weekday and  *)
(* interval of the timestamp, leaves every other bucket of every entity as  *)
(* it is, increments total_observations, sets first_observation only when   *)
(* it was unset and always sets last_observation to the timestamp.          *)
C13_RecordTouchesOneBucket ==
    [][\A entity_id \in StoreEntities, off \in StoreOffsets :
           RecordStateChange(entity_id, off) => RecordEffect(entity_id, DateTime(clock, off))]_vars

(* an entity recorded before was recorded again, in another zone and bucket, *)
(* and keeps its first observation                                           *)
C13_Witness ==
    /\ Len(journal) = 3
    /\ journal[3].entity_id = journal[1].entity_id
    /\ journal[3].timestamp.off # 0
    /\ PatternBefore(journal[3].entity_id).first_observation = journal[1].timestamp
    /\ PatternBefore(journal[3].entity_id).last_observation = journal[3].timestamp
    /\ BucketAt(PatternBefore(journal[3].entity_id), journal[3].timestamp).count = 1

(* the dimensions of the bucket array of a pattern *)
SevenByNinetySix(pattern) ==
    /\ DOMAIN pattern.day_buckets = 0..(DAYS_IN_WEEK - 1)
    /\ \A day \in DOMAIN pattern.day_buckets :
           Len(pattern.day_buckets[day]) = INTERVALS_PER_DAY

(* C14 as stated: a pattern has 7 weekdays of 96 buckets each after its     *)
(* construction, after every record and after from_dict of any document.    *)
C14_AlwaysSevenByNinetySix ==
    /\ SevenByNinetySix(EntityPattern("sensor.a"))
    /\ \A i \in DOMAIN analyzer.patterns : SevenByNinetySix(analyzer.patterns[i])
    /\ probe.op = "from_dict" => SevenByNinetySix(probe.result)

(* C15: from_dict(to_dict(x)) of a Pattern Store reached through records    *)
(* has the entities of x and, for each, its total_observations, first and   *)
(* last observation and the count, sum and sum of squares of each of its    *)
(* 672 buckets.                                                             *)
C15_StoreRoundTrip ==
    probe.op = "round_trip" =>
        /\ DOMAIN probe.result.patterns = DOMAIN analyzer.patterns
        /\ \A i \in DOMAIN analyzer.patterns :
               LET x == analyzer.patterns[i]
                   y == probe.result.patterns[i]
               IN  /\ y.entity_id = x.entity_id
                   /\ y.total_observations = x.total_observations
                   /\ y.first_observation = x.first_observation
                   /\ y.last_observation = x.last_observation
                   /\ DOMAIN y.day_buckets = 0..(DAYS_IN_WEEK - 1)
                   /\ \A day \in 0..(DAYS_IN_WEEK - 1) :
                          /\ Len(y.day_buckets[day]) = INTERVALS_PER_DAY
                          /\ \A k \in 1..INTERVALS_PER_DAY :
                                 y.day_buckets[day][k] = x.day_buckets[day][k]

(* a store of two entities, one of them recorded in a zone one hour east of *)
(* UTC, went through to_dict and from_dict                                  *)
C15_Witness ==
    /\ probe.op = "round_trip"
    /\ Len(analyzer.patterns) = 2
    /\ \E i \in DOMAIN analyzer.patterns :
           /\ analyzer.patterns[i].first_observation # NoneDT
           /\ analyzer.patterns[i].first_observation.off = 3600
           /\ probe.result.patterns[i].first_observation
                  = analyzer.patterns[i].first_observation


(***************************************************************************)
(* ml_analyzer.py called directly, and the retraining of the tick: the ML  *)
(* analyzer of a running coordinator (ML enabled, notifications disabled)  *)
(* starts from a history of record_event calls and is then given direct    *)
(* calls of record_event, train and prune_old_events, and one tick.        *)
(***************************************************************************)
MaxMLCalls == 3

(* a history: `old` events on the Monday of week 0, then events on the Monday *)
(* of the week `week`, n in all: sensor.a and, five seconds later, sensor.b,  *)
(* every ten minutes from 09:00                                               *)
MLEventTime(h, i) ==
    LET week == IF i <= h.old THEN 0 ELSE h.week
    IN  DateTime(week * SECONDS_PER_WEEK + 9 * 3600 + ((i - 1) \div 2) * 600
                 + (IF i % 2 = 0 THEN 5 ELSE 0), 0)
MLEventEntity(i) == IF i % 2 = 0 THEN "sensor.b" ELSE "sensor.a"

RECURSIVE MLRun(_, _, _, _)
(* the analyzer after record_event of the events lo .. hi of the history *)
MLRun(m, h, lo, hi) ==
    IF lo > hi THEN m
    ELSE IF lo = hi
    THEN record_event(m, MLEventEntity(lo), MLEventTime(h, lo), "off", "on")
    ELSE LET mid == (lo + hi) \div 2
             first == MLRun(m, h, lo, mid)
         IN  IF Evaluated(first) THEN MLRun(first, h, mid + 1, hi) ELSE first

(* one event short of MIN_SAMPLES_FOR_ML, all of week 5; and one event of week *)
(* 0 followed by MIN_SAMPLES_FOR_ML events of week 3                           *)
MLHistories ==
    { [old |-> 0, week |-> 5, n |-> MIN_SAMPLES_FOR_ML - 1],
      [old |-> 1, week |-> 3, n |-> MIN_SAMPLES_FOR_ML + 1] }

MLEntities == {"sensor.a", "sensor.c"}
MLSteps == {3 * SECONDS_PER_WEEK}
MLMaxAges == {28}

InitML ==
    /\ cfg = Config(TRUE, FALSE, TRUE)
    /\ tz = 0
    /\ store = << >>
    /\ ml_store = << >>
    /\ saved_state = << >>
    /\ clock = StartClock
    /\ phase = "running"
    /\ analyzer = NewAnalyzer
    /\ \E h \in MLHistories : ml = MLRun(NewMLAnalyzer(cfg), h, 1, h.n)
    /\ holiday_mode = FALSE
    /\ snooze_until = NoneDT
    /\ last_welfare_status = None
    /\ last_notification_time = NoneDT
    /\ last_notification_type = None
    /\ recent_events = << >>
    /\ recent_anomalies = << >>
    /\ recent_ml_anomalies = << >>
    /\ pc = "idle"
    /\ tick = IdleTick
    /\ sent = << >>
    /\ welfare_run = NoRun
    /\ handled = NoCall
    /\ setup_info = NoSetup
    /\ budget = 0
    /\ probe = NoProbe
    /\ journal = << >>

(* a direct call is made between ticks, and counts against MaxMLCalls *)
MLFrame ==
    /\ pc = "idle"
    /\ probe.op # "ml_round_trip"
    /\ budget < MaxMLCalls
    /\ budget' = budget + 1
    /\ UNCHANGED <<tz, cfg, phase, analyzer, holiday_mode, snooze_until,
                   last_welfare_status, last_notification_time, last_notification_type,
                   recent_events, recent_anomalies, recent_ml_anomalies, store, ml_store,
                   pc, tick, sent, welfare_run, saved_state, handled, setup_info>>

(* ml_analyzer.record_event(entity_id, now, "off", "on") *)
RecordEvent(entity_id) ==
    /\ MLFrame
    /\ ml' = record_event(ml, entity_id, now_local, "off", "on")
    /\ journal' = Append(journal, RecordCall(entity_id, now_local))
    /\ probe' = NoProbe
    /\ UNCHANGED clock

(* ml_analyzer.train(), and what it returned *)
Train ==
    /\ MLFrame
    /\ ml' = train(ml, clock)
    /\ probe' = [op |-> "train", result |-> TrainSucceeds(ml)]
    /\ UNCHANGED <<clock, journal>>

(* ml_analyzer.prune_old_events(max_age_days), and the count it returned *)
PruneOldEvents(max_age_days) ==
    /\ MLFrame
    /\ ml' = prune_old_events(ml, max_age_days, clock)
    /\ probe' = [op |-> "prune_old_events",
                 result |-> Len(ml.events) - Len(prune_old_events(ml, max_age_days, clock).events)]
    /\ UNCHANGED <<clock, journal>>

AdvanceML(d) ==
    /\ MLFrame
    /\ clock' = clock + d
    /\ probe' = NoProbe
    /\ UNCHANGED <<ml, journal>>

(* MLPatternAnalyzer.from_dict(ml_analyzer.to_dict()) *)
ProbeMLRoundTrip ==
    /\ pc = "idle"
    /\ probe.op # "ml_round_trip"
    /\ probe' = [op |-> "ml_round_trip",
                 result |-> MLFromDict(MLToDict(ml), ml.ml_available,
                                       MLToDict(ml).contamination,
                                       MLToDict(ml).cross_sensor_window_seconds, clock)]
    /\ UNCHANGED <<clock, tz, cfg, phase, analyzer, ml, holiday_mode, snooze_until,
                   last_welfare_status, last_notification_time, last_notification_type,
                   recent_events, recent_anomalies, recent_ml_anomalies, store, ml_store,
                   pc, tick, sent, welfare_run, saved_state, handled, setup_info, budget,
                   journal>>

(* the one tick of the run *)
FirstTick == ~setup_info.ticked /\ probe.op # "ml_round_trip" /\ TickStart

NextML ==
    \/ \E entity_id \in MLEntities : RecordEvent(entity_id)
    \/ Train
    \/ \E max_age_days \in MLMaxAges : PruneOldEvents(max_age_days)
    \/ \E d \in MLSteps : AdvanceML(d)
    \/ ProbeMLRoundTrip
    \/ FirstTick
    \/ TickResume

SpecML == InitML /\ [][NextML]_vars


(***************************************************************************)
(* Properties of the ML analyzer, under SpecML                             *)
(***************************************************************************)
Trained == probe.op = "train"

(* C19: with the ML runtime available, record_event appends exactly one event  *)
(* and adds one to samples_processed; became_effective_at is unset exactly     *)
(* while samples_processed is below MIN_SAMPLES_FOR_ML, is set to the time of  *)
(* the event that brings samples_processed to it, and once set is changed by   *)
(* none of record_event, train and prune_old_events.                           *)
C19_EffectiveOnceAtHundred ==
    /\ [](ml.ml_available
          => ((ml.became_effective_at = NoneDT)
              <=> (ml.samples_processed < MIN_SAMPLES_FOR_ML)))
    /\ [][/\ \A entity_id \in MLEntities :
                RecordEvent(entity_id) =>
                    /\ ml'.events = Append(ml.events,
                                           StateChangeEvent(entity_id, now_local, "off", "on"))
                    /\ ml'.samples_processed = ml.samples_processed + 1
                    /\ (ml.became_effective_at = NoneDT
                        /\ ml.samples_processed + 1 = MIN_SAMPLES_FOR_ML)
                       => ml'.became_effective_at = now_local
          /\ (/\ ml.became_effective_at # NoneDT
              /\ \/ \E entity_id \in MLEntities : RecordEvent(entity_id)
                 \/ Train
                 \/ \E max_age_days \in MLMaxAges : PruneOldEvents(max_age_days))
             => ml'.became_effective_at = ml.became_effective_at]_vars

(* an analyzer that became effective at an event recorded now, was trained     *)
(* later, and holds more events than when it became effective                  *)
C19_Witness ==
    /\ ml.became_effective_at # NoneDT
    /\ ml.became_effective_at.t = StartClock
    /\ ml.last_warmup # NoneDT
    /\ ml.last_warmup.t > StartClock
    /\ Trained

(* C20: train() with fewer than MIN_SAMPLES_FOR_ML stored events returns False *)
(* and leaves the analyzer as it was: model, samples_processed, is_trained,    *)
(* last_warmup and became_effective_at.                                        *)
C20_TrainNeedsHundredEvents ==
    [][(Train /\ Len(ml.events) < MIN_SAMPLES_FOR_ML)
       => /\ ~probe'.result
          /\ ml'.model = ml.model
          /\ ml'.samples_processed = ml.samples_processed
          /\ is_trained(ml') = is_trained(ml)
          /\ ml'.last_warmup = ml.last_warmup
          /\ ml'.became_effective_at = ml.became_effective_at
          /\ ml' = ml]_vars

(* train() refused by a trained analyzer whose log was pruned below the minimum *)
C20_Witness ==
    /\ Trained
    /\ ~probe.result
    /\ is_trained(ml)
    /\ Len(ml.events) < MIN_SAMPLES_FOR_ML
    /\ ml.model.learned # << >>

MLRoundTripped == probe.op = "ml_round_trip"

RetrainDue ==
    /\ enable_ml
    /\ ~skip_anomaly_detection(holiday_mode, is_snoozed)
    /\ last_trained(ml) # NoneDT
    /\ clock - last_trained(ml).t > cfg.retrain_period_days * SECONDS_PER_DAY

(* the events no older than twice the retrain period *)
Retained ==
    SelectSeq(ml.events,
              LAMBDA e : e.timestamp.t >= clock - 2 * cfg.retrain_period_days * SECONDS_PER_DAY)

(* C18: on a tick with ML enabled and not suspended, when last_trained is set  *)
(* and older than retrain_period_days, the events older than twice that period *)
(* are pruned and the model is rebuilt from exactly the remaining events in    *)
(* their order; afterwards samples_processed is the number of retained events  *)
(* and last_trained is the time of this retrain.                               *)
C18_RetrainPrunesThenReplays ==
    [][(TickStart /\ RetrainDue)
       => /\ ml'.events = Retained
          /\ ml'.samples_processed = Len(Retained)
          /\ Len(ml'.model.learned) = Len(Retained)
          /\ \A i \in DOMAIN Retained :
                /\ ml'.model.learned[i].hour =
                       Rat((Wall(Retained[i].timestamp) % SECONDS_PER_DAY) \div 3600, 23)
                /\ ml'.model.learned[i].day_of_week = Rat(Weekday(Retained[i].timestamp), 6)
          /\ last_trained(ml') = NowUtc(clock)]_vars

Pruned == probe.op = "prune_old_events"

(* the places of the event log that are not older than max_age_days *)
KeptPlaces(max_age_days) ==
    {i \in DOMAIN ml.events : ml.events[i].timestamp.t >= clock - max_age_days * SECONDS_PER_DAY}

(* C21: prune_old_events(max_age_days) removes from the event log exactly the  *)
(* events older than now - max_age_days, keeps the others in their order,      *)
(* returns the number removed, and leaves samples_processed, is_trained, the   *)
(* model, the cross-sensor patterns and the entity indices unchanged.          *)
C21_PruneDropsOldEventsOnly ==
    [][\A max_age_days \in MLMaxAges :
          PruneOldEvents(max_age_days) =>
              LET kept == KeptPlaces(max_age_days)
                  place(j) == CHOOSE i \in kept : Cardinality({k \in kept : k < i}) = j - 1
              IN  /\ Len(ml'.events) = Cardinality(kept)
                  /\ \A j \in DOMAIN ml'.events : ml'.events[j] = ml.events[place(j)]
                  /\ probe'.result = Len(ml.events) - Cardinality(kept)
                  /\ ml'.samples_processed = ml.samples_processed
                  /\ is_trained(ml') = is_trained(ml)
                  /\ ml'.model = ml.model
                  /\ ml'.cross_sensor_patterns = ml.cross_sensor_patterns
                  /\ ml'.entity_indices = ml.entity_indices]_vars

(* a prune that removed an old event and kept the later ones of a trained analyzer *)
C21_Witness ==
    /\ Pruned
    /\ probe.result > 0
    /\ ml.events # << >>
    /\ ml.samples_processed = Len(ml.events) + probe.result
    /\ is_trained(ml)


(***************************************************************************)
(* The correlation miner of ml_analyzer.py called directly: an analyzer    *)
(* that has seen a history of paired events is given record_event calls,   *)
(* some with a timestamp earlier than that of the call before, and         *)
(* check_cross_sensor_anomalies over the events of these calls.            *)
(***************************************************************************)
MaxCrossCalls == 3

(* a history of pairs: the entity `first` and, five seconds later, the other  *)
(* of sensor.a and sensor.b, every ten minutes from Monday 09:00 of week 5    *)
CrossEventEntity(h, i) ==
    IF (i % 2 = 1) = (h.first = "sensor.a") THEN "sensor.a" ELSE "sensor.b"
CrossEventTime(i) ==
    DateTime(5 * SECONDS_PER_WEEK + 9 * 3600 + ((i - 1) \div 2) * 600
             + (IF i % 2 = 0 THEN 5 ELSE 0), 0)

RECURSIVE CrossRun(_, _, _, _)
(* the analyzer after record_event of the events lo .. hi of the history *)
CrossRun(m, h, lo, hi) ==
    IF lo > hi THEN m
    ELSE IF lo = hi
    THEN record_event(m, CrossEventEntity(h, lo), CrossEventTime(lo), "off", "on")
    ELSE LET mid == (lo + hi) \div 2
             first == CrossRun(m, h, lo, mid)
         IN  IF Evaluated(first) THEN CrossRun(first, h, mid + 1, hi) ELSE first

(* no history; ten pairs, too few for a strong pattern; twelve pairs led by   *)
(* sensor.a; twelve pairs led by sensor.b                                     *)
CrossHistories ==
    { [first |-> "sensor.a", pairs |-> 0], [first |-> "sensor.a", pairs |-> 10],
      [first |-> "sensor.a", pairs |-> 12], [first |-> "sensor.b", pairs |-> 12] }

CrossEntities == {"sensor.a", "sensor.b", "sensor.c"}
(* how far before the clock the timestamp of a recorded event lies *)
CrossLags == {0, 10}
CrossSteps == {5, 20, 400}

InitCross ==
    /\ cfg = Config(TRUE, FALSE, TRUE)
    /\ tz = 0
    /\ store = << >>
    /\ ml_store = << >>
    /\ saved_state = << >>
    /\ clock = StartClock
    /\ phase = "running"
    /\ analyzer = NewAnalyzer
    /\ \E h \in CrossHistories : ml = CrossRun(NewMLAnalyzer(cfg), h, 1, 2 * h.pairs)
    /\ holiday_mode = FALSE
    /\ snooze_until = NoneDT
    /\ last_welfare_status = None
    /\ last_notification_time = NoneDT
    /\ last_notification_type = None
    /\ recent_events = << >>
    /\ recent_anomalies = << >>
    /\ recent_ml_anomalies = << >>
    /\ pc = "idle"
    /\ tick = IdleTick
    /\ sent = << >>
    /\ welfare_run = NoRun
    /\ handled = NoCall
    /\ setup_info = NoSetup
    /\ budget = 0
    /\ probe = NoProbe
    /\ journal = << >>

CrossFrame ==
    UNCHANGED <<tz, cfg, phase, analyzer, holiday_mode, snooze_until,
                last_welfare_status, last_notification_time, last_notification_type,
                recent_anomalies, recent_ml_anomalies, store, ml_store,
                pc, tick, sent, welfare_run, saved_state, handled, setup_info>>

(* ml_analyzer.record_event(entity_id, now - lag, "off", "on"); the caller keeps *)
(* the event in its list of recent events                                       *)
RecordEventAt(entity_id, lag) ==
    /\ probe = NoProbe
    /\ budget < MaxCrossCalls
    /\ budget' = budget + 1
    /\ ml' = record_event(ml, entity_id, DateTime(clock - lag, 0), "off", "on")
    /\ recent_events' = Append(recent_events,
                               StateChangeEvent(entity_id, DateTime(clock - lag, 0), "off", "on"))
    /\ journal' = Append(journal, RecordCall(entity_id, DateTime(clock - lag, 0)))
    /\ UNCHANGED <<clock, probe>>
    /\ CrossFrame

AdvanceCross(d) ==
    /\ probe = NoProbe
    /\ budget < MaxCrossCalls
    /\ budget' = budget + 1
    /\ clock' = clock + d
    /\ UNCHANGED <<ml, recent_events, journal, probe>>
    /\ CrossFrame

(* ml_analyzer.check_cross_sensor_anomalies(recent_events) *)
ProbeCrossSensor ==
    /\ probe = NoProbe
    /\ probe' = [op |-> "check_cross_sensor_anomalies",
                 result |-> check_cross_sensor_anomalies(ml, recent_events, clock)]
    /\ UNCHANGED <<ml, recent_events, journal, clock, budget>>
    /\ CrossFrame

NextCross ==
    \/ \E entity_id \in CrossEntities, lag \in CrossLags : RecordEventAt(entity_id, lag)
    \/ \E d \in CrossSteps : AdvanceCross(d)
    \/ ProbeCrossSensor

SpecCross == InitCross /\ [][NextCross]_vars


(***************************************************************************)
(* Properties of the correlation miner, under SpecCross                    *)
(***************************************************************************)
(* the patterns of the analyzer m keyed by (x, y), as places of its map *)
Keyed(m, x, y) ==
    {i \in DOMAIN m.cross_sensor_patterns :
        m.cross_sensor_patterns[i].entity_a = x /\ m.cross_sensor_patterns[i].entity_b = y}

(* a counter of the pattern keyed by (x, y), 0 while there is no such pattern *)
CounterOf(m, x, y, counter) ==
    IF Keyed(m, x, y) = {} THEN 0
    ELSE m.cross_sensor_patterns[CHOOSE i \in Keyed(m, x, y) : TRUE][counter]

(* the events of the correlation window that an event of entity_id stamped ts *)
(* still finds there and that pair it with the other entity of {x, y}         *)
Partners(x, y, entity_id, ts) ==
    {i \in DOMAIN ml.recent_events_window :
        /\ ml.recent_events_window[i].timestamp.t >= ts - ml.cross_sensor_window
        /\ ml.recent_events_window[i].entity_id # entity_id
        /\ {ml.recent_events_window[i].entity_id, entity_id} = {x, y}}

(* C22: record_event of an event of entity X adds one to co_occurrence_count   *)
(* of the pattern keyed by the alphabetically ordered pair, created if absent, *)
(* for each event of another entity still inside the correlation window;       *)
(* events of X itself and events outside the window update no pattern, and no  *)
(* pattern is keyed by two equal ids or by a pair out of alphabetical order.   *)
C22_CoOccurrencePerWindowEvent ==
    /\ [](\A x \in CrossEntities, y \in CrossEntities :
             /\ Cardinality(Keyed(ml, x, y)) <= 1
             /\ Rank(x) >= Rank(y) => Keyed(ml, x, y) = {})
    /\ [][\A entity_id \in CrossEntities, lag \in CrossLags :
             RecordEventAt(entity_id, lag) =>
                 \A x \in CrossEntities, y \in CrossEntities :
                     CounterOf(ml', x, y, "co_occurrence_count") =
                         CounterOf(ml, x, y, "co_occurrence_count")
                         + (IF Rank(x) < Rank(y)
                            THEN Cardinality(Partners(x, y, entity_id, clock - lag))
                            ELSE 0)]_vars

(* a pattern with sensor.c, which no history holds, counted twice by the calls *)
(* of this run, next to another pattern                                        *)
C22_Witness ==
    /\ \E x \in CrossEntities :
          CounterOf(ml, x, "sensor.c", "co_occurrence_count") = 2
    /\ Len(ml.cross_sensor_patterns) >= 2
    /\ Len(journal) = 3

(* C23: for each co-occurrence counted by record_event the ordering counter    *)
(* that grows is the one of the temporal order of the two events:              *)
(* a_before_b_count when the event of the alphabetically first entity has the  *)
(* earlier timestamp, b_before_a_count when it has the later one, in whatever  *)
(* order the two events were passed to record_event.                           *)
C23_OrderingFollowsTimestamps ==
    [][\A entity_id \in CrossEntities, lag \in CrossLags :
          RecordEventAt(entity_id, lag) =>
              \A x \in CrossEntities, y \in CrossEntities :
                  Rank(x) < Rank(y) =>
                      LET ts == clock - lag
                          at(i) == ml.recent_events_window[i].timestamp.t
                          partners == Partners(x, y, entity_id, ts)
                          first_earlier == {i \in partners :
                                              IF entity_id = x THEN ts < at(i) ELSE at(i) < ts}
                          first_later == {i \in partners :
                                            IF entity_id = x THEN ts > at(i) ELSE at(i) > ts}
                      IN  /\ CounterOf(ml', x, y, "a_before_b_count")
                                 >= CounterOf(ml, x, y, "a_before_b_count")
                                    + Cardinality(first_earlier)
                          /\ CounterOf(ml', x, y, "b_before_a_count")
                                 >= CounterOf(ml, x, y, "b_before_a_count")
                                    + Cardinality(first_later)]_vars

CrossChecked == probe.op = "check_cross_sensor_anomalies"

(* the instants at which the entity changed inside the check window, among the *)
(* events given to the check                                                   *)
ChangedAt(entity_id) ==
    {recent_events[i].timestamp.t : i \in
        {j \in DOMAIN recent_events :
            /\ recent_events[j].entity_id = entity_id
            /\ recent_events[j].timestamp.t >= clock - ml.cross_sensor_window}}

StrongPattern(p) ==
    RLt(Rat(1, 2), correlation_strength(p)) /\ p.co_occurrence_count >= 10

(* C24: check_cross_sensor_anomalies reports a missing_correlation only for a  *)
(* strong pattern (strength > 0.5, co_occurrence_count >= 10) of which exactly *)
(* one entity changed inside the check window, more than twice                 *)
(* avg_time_delta_seconds ago; it names the entity that did not change and     *)
(* lists the other as related; when the entity that changed is the             *)
(* alphabetically second one it reports only if a_before_b_count exceeds       *)
(* b_before_a_count; it reports nothing for a pattern of which both or neither *)
(* entity changed.                                                             *)
C24_MissingCorrelationOnlyWhenDue ==
    CrossChecked =>
        /\ \A k \in DOMAIN probe.result :
              LET r == probe.result[k]
              IN  /\ r.anomaly_type = "missing_correlation"
                  /\ Len(r.related_entities) = 1
                  /\ r.related_entities[1] # r.entity_id
                  /\ \E i \in DOMAIN ml.cross_sensor_patterns :
                        LET p == ml.cross_sensor_patterns[i]
                            seen == r.related_entities[1]
                        IN  /\ StrongPattern(p)
                            /\ {p.entity_a, p.entity_b} = {seen, r.entity_id}
                            /\ ChangedAt(r.entity_id) = {}
                            /\ \E t \in ChangedAt(seen) :
                                  RLt(RMul(p.avg_time_delta_seconds, RInt(2)), RInt(clock - t))
                            /\ seen = p.entity_b => p.a_before_b_count > p.b_before_a_count
        /\ \A i \in DOMAIN ml.cross_sensor_patterns :
              LET p == ml.cross_sensor_patterns[i]
              IN  (ChangedAt(p.entity_a) = {}) = (ChangedAt(p.entity_b) = {})
                  => \A k \in DOMAIN probe.result :
                        {probe.result[k].entity_id, probe.result[k].related_entities[1]}
                            # {p.entity_a, p.entity_b}

(* a report that sensor.a is missing after a lone change of sensor.b, for a    *)
(* pattern in which sensor.a usually comes first                               *)
C24_Witness ==
    /\ CrossChecked
    /\ Len(probe.result) = 1
    /\ probe.result[1].entity_id = "sensor.a"
    /\ probe.result[1].related_entities = <<"sensor.b">>
    /\ ChangedAt("sensor.b") # {}


(***************************************************************************)
(* The notification gate of the tick for a trained model whose first event *)
(* is recent: a running coordinator (ML and notifications enabled) whose   *)
(* ML analyzer learned 100 events in week 0 and two in week 5, and was     *)
(* pruned by the retrain of week 5.                                        *)
(***************************************************************************)
GateHistory == [old |-> MIN_SAMPLES_FOR_ML, week |-> 5, n |-> MIN_SAMPLES_FOR_ML + 2]
GateRetrainClock == 5 * SECONDS_PER_WEEK + 18 * 3600

(* three sinks, the second without a dot *)
GateServices ==
    << <<"notify", ".", "phone">>, <<"phone">>, <<"notify", ".", "tablet">> >>

InitGate ==
    /\ cfg = [Config(TRUE, TRUE, TRUE) EXCEPT !.notify_services = GateServices]
    /\ tz = 0
    /\ store = << >>
    /\ ml_store = << >>
    /\ saved_state = << >>
    /\ clock = StartClock
    /\ phase = "running"
    /\ analyzer = NewAnalyzer
    /\ ml = train(prune_old_events(MLRun(NewMLAnalyzer(cfg), GateHistory, 1, GateHistory.n),
                                   cfg.retrain_period_days * 2, GateRetrainClock),
                  GateRetrainClock)
    /\ holiday_mode = FALSE
    /\ snooze_until = NoneDT
    /\ last_welfare_status = None
    /\ last_notification_time = NoneDT
    /\ last_notification_type = None
    /\ recent_events = << >>
    /\ recent_anomalies = << >>
    /\ recent_ml_anomalies = << >>
    /\ pc = "idle"
    /\ tick = IdleTick
    /\ sent = << >>
    /\ welfare_run = NoRun
    /\ handled = NoCall
    /\ setup_info = NoSetup
    /\ budget = 0
    /\ probe = NoProbe
    /\ journal = << >>

NextGate ==
    \/ \E event \in BusEvents : HandleStateChanged(event)
    \/ TickStart
    \/ TickResume
    \/ \E d \in ClockSteps : Advance(d)

SpecGate == InitGate /\ [][NextGate]_vars

(* the ML learning period has elapsed since the first event of the analyzer m *)
MLPeriodElapsed(m, now) ==
    /\ m.events # << >>
    /\ now - m.events[1].timestamp.t >= cfg.ml_learning_period_days * SECONDS_PER_DAY

(* C25: an ML-anomaly notification is sent on a tick only if the model is      *)
(* trained and the time since the first ML event is at least                   *)
(* ml_learning_period_days; on a tick where the model is trained but the       *)
(* period has not elapsed, ML anomalies are detected and no ML notification is *)
(* sent.                                                                       *)
C25_MLNotifiesAfterLearningPeriod ==
    /\ [](\A k \in DOMAIN sent : sent[k].category = "ml" => tick.ml_learning_complete)
    /\ [][/\ \A k \in DOMAIN sent' :
                (k \notin DOMAIN sent /\ sent'[k].category = "ml")
                => is_trained(ml') /\ MLPeriodElapsed(ml', clock')
          /\ (TickStart /\ ~skip_anomaly_detection(holiday_mode, is_snoozed))
             => /\ tick'.ml_learning_complete
                    = (is_trained(ml') /\ MLPeriodElapsed(ml', clock))
                /\ (is_trained(ml') /\ ~MLPeriodElapsed(ml', clock))
                   => /\ tick'.ran_ml
                      /\ tick'.ml_anomalies # << >> => recent_ml_anomalies' = tick'.ml_anomalies
                      /\ \A k \in DOMAIN sent' : sent'[k].category # "ml"]_vars

(* an ML notification on its way to a mobile sink, from a trained model whose  *)
(* first event is at least the learning period old                             *)
C25_Witness ==
    /\ \E k \in DOMAIN sent : sent[k].category = "ml" /\ sent[k].target # "persistent_notification"
    /\ is_trained(ml)
    /\ MLPeriodElapsed(ml, clock)
    /\ tick.ml_anomalies # << >>

(***************************************************************************)
(* Properties of the forwarding to the external sinks                      *)
(***************************************************************************)
(* the configured sinks whose identifier has the form domain.service *)
WellFormedSinks ==
    SelectSeq(cfg.notify_services, LAMBDA name : Len(SplitOnce(name)) = 2)

IsPersistent(k) == sent[k].target = "persistent_notification"

(* the last dispatch of the notification whose persistent notification is sent[i] *)
RoundEnd(i) ==
    IF \E j \in (i + 1)..Len(sent) : IsPersistent(j)
    THEN (CHOOSE j \in (i + 1)..Len(sent) :
              IsPersistent(j) /\ \A k \in (i + 1)..(j - 1) : ~IsPersistent(k)) - 1
    ELSE Len(sent)

(* the forwarding of the notification of sent[i] has gone through the list *)
RoundOver(i) == RoundEnd(i) < Len(sent) \/ pc \in {"store_save", "ml_store_save"}

(* C26: when a notification is forwarded to a list of sinks, every sink whose *)
(* identifier has the form domain.service is called exactly once, in list     *)
(* order, whatever happens with the other sinks: a sink without a dot and a   *)
(* sink whose call raised are skipped without stopping the remaining sinks or *)
(* the tick, and the persistent notification is issued before any sink is     *)
(* called.                                                                    *)
C26_EverySinkCalledOnceInOrder ==
    /\ sent # << >> => IsPersistent(1)
    /\ \A i \in DOMAIN sent :
          IsPersistent(i)
          => /\ RoundEnd(i) - i <= Len(WellFormedSinks)
             /\ \A k \in 1..(RoundEnd(i) - i) :
                   /\ sent[i + k].target = WellFormedSinks[k]
                   /\ sent[i + k].category = sent[i].category
             /\ RoundOver(i) => RoundEnd(i) - i = Len(WellFormedSinks)

(* the tick is at its save after a notification whose first sink raised, with *)
(* a sink without a dot in the list, and the last sink was called             *)
C26_Witness ==
    /\ pc = "store_save"
    /\ \E j \in DOMAIN cfg.notify_services : Len(SplitOnce(cfg.notify_services[j])) # 2
    /\ \E i \in DOMAIN sent :
          /\ sent[i].failed
          /\ i < Len(sent)
          /\ sent[i + 1].target = cfg.notify_services[Len(cfg.notify_services)]
          /\ sent[i + 1].category = sent[i].category

(***************************************************************************)
(* coordinator.py: the data a tick returns, lines 578-662                  *)
(***************************************************************************)
(* an expression of the code either raises an exception or has a value *)
Raise(exception) == [raised |-> exception]
Value(v) == [raised |-> None, value |-> v]

(* x.isoformat(): None has no such attribute *)
IsoFormatCall(x) == IF x = NoneDT THEN Raise("AttributeError") ELSE Value(IsoFormat(x))

(* an isoformat() that is called whatever the condition is *)
IsoFormatUnguarded(cond, x) == IsoFormatCall(x)

(* x.isoformat() if cond else None *)
IsoFormatIf(cond, x) == IF cond THEN IsoFormatCall(x) ELSE Value(None)

RECURSIVE ScoreTotals(_, _, _)
(* analyzer.py lines 345-355: total_expected and total_actual over the first *)
(* k patterns                                                                *)
ScoreTotals(an, now, k) ==
    IF k = 0 THEN [expected |-> RZero, actual |-> RZero]
    ELSE LET totals == ScoreTotals(an, now, k - 1)
             expected_mean == get_expected_activity(an.patterns[k], NowUtc(now)).mean
             actual == get_daily_count(an, an.patterns[k].entity_id, now)
         IN  IF RLt(RZero, expected_mean)
             THEN [expected |-> RAdd(totals.expected, expected_mean),
                   actual |-> RAdd(totals.actual,
                                   RMin(Rat(actual, INTERVALS_PER_DAY),
                                        RMul(expected_mean, RInt(2))))]
             ELSE totals

(* analyzer.py lines 339-362; the quotient of line 361 raises on a zero divisor *)
calculate_activity_score(an, now) ==
    LET totals == ScoreTotals(an, now, Len(an.patterns))
    IN  IF an.patterns = << >> THEN Value(RZero)
        ELSE IF REq(totals.expected, RZero) THEN Value(RInt(50))
        ELSE IF totals.expected.n = 0 THEN Raise("ZeroDivisionError")
        ELSE Value(RMin(RInt(100), RMul(RDiv(totals.actual, totals.expected), RInt(100))))

(* lines 598-616: the entries of the two lists of anomalies *)
AnomalyEntries(stat_anomalies, ml_anomalies) ==
    [i \in DOMAIN stat_anomalies |->
        [entity_id |-> stat_anomalies[i].entity_id,
         type |-> stat_anomalies[i].anomaly_type,
         source |-> "statistical"]]
    \o [i \in DOMAIN ml_anomalies |->
           [entity_id |-> ml_anomalies[i].entity_id,
            type |-> ml_anomalies[i].anomaly_type,
            source |-> "ml"]]

(* lines 617-631; next_retrain is last_trained + retrain_period_days *)
MLStatus ==
    LET trained_at == IsoFormatIf(enable_ml /\ last_trained(ml) # NoneDT, last_trained(ml))
        next_retrain ==
            IsoFormatIf(enable_ml /\ last_trained(ml) # NoneDT,
                        IF last_trained(ml) = NoneDT THEN NoneDT
                        ELSE DateTime(last_trained(ml).t
                                      + cfg.retrain_period_days * SECONDS_PER_DAY,
                                      last_trained(ml).off))
    IN  IF trained_at.raised # None THEN trained_at
        ELSE IF next_retrain.raised # None THEN next_retrain
        ELSE Value([enabled |-> enable_ml,
                    trained |-> IF enable_ml THEN is_trained(ml) ELSE FALSE,
                    sample_count |-> IF enable_ml THEN ml.samples_processed ELSE 0,
                    last_trained |-> trained_at.value,
                    next_retrain |-> next_retrain.value])

(* PatternAnalyzer.get_training_time_remaining(), called at line 634: whether *)
(* the statistical learning is complete                                      *)
get_training_time_remaining(an, now) ==
    [complete |-> is_learning_complete(an, now)]

(* MLPatternAnalyzer.get_training_time_remaining(ml_learning_period_days),   *)
(* called at line 636: whether the learning period has elapsed since the     *)
(* first event                                                               *)
ml_get_training_time_remaining(m, learning_period_days, now) ==
    [complete |-> /\ first_event_time(m) # NoneDT
                  /\ now - first_event_time(m).t >= learning_period_days * SECONDS_PER_DAY]

(* lines 578-662: the entries of the dictionary, each raising or with a value *)
DataEntries ==
    [last_activity |-> IsoFormatIf(get_last_activity_time(analyzer) # NoneDT,
                                   get_last_activity_time(analyzer)),
     activity_score |-> calculate_activity_score(analyzer, clock),
     anomaly_detected |-> Value(tick.stat_anomalies # << >> \/ tick.ml_anomalies # << >>),
     confidence |-> Value(get_confidence(analyzer, clock)),
     daily_count |-> Value(get_total_daily_count(analyzer, clock)),
     anomalies |-> Value(AnomalyEntries(tick.stat_anomalies, tick.ml_anomalies)),
     ml_status |-> MLStatus,
     cross_sensor_patterns |->
         Value(IF enable_ml THEN get_strong_patterns(ml, Rat(3, 10)) ELSE << >>),
     stat_training |-> Value(get_training_time_remaining(analyzer, clock)),
     ml_training |->
         Value(IF enable_ml
               THEN ml_get_training_time_remaining(ml, cfg.ml_learning_period_days, clock)
               ELSE [complete |-> FALSE]),
     welfare |-> Value(get_welfare_status(analyzer, clock)),
     routine |-> Value(get_routine_progress(analyzer, clock)),
     activity_context |-> Value(get_time_since_activity_context(analyzer, clock)),
     entity_status |-> Value(get_entity_status(analyzer, clock)),
     last_notification |->
         LET timestamp == IsoFormatIf(last_notification_time # NoneDT, last_notification_time)
         IN  IF timestamp.raised # None THEN timestamp
             ELSE Value([timestamp |-> timestamp.value, type |-> last_notification_type]),
     holiday_mode |-> Value(holiday_mode),
     snooze_active |-> Value(is_snoozed),
     snooze_until |-> IsoFormatIf(snooze_until # NoneDT, snooze_until)]

(* the return of _async_update_data: the dictionary, or the exception of an entry *)
UpdateData ==
    LET entries == DataEntries
    IN  IF \E k \in DOMAIN entries : entries[k].raised # None
        THEN Raise(CHOOSE e \in {entries[k].raised : k \in DOMAIN entries} : e # None)
        ELSE Value([k \in DOMAIN entries |-> entries[k].value])

(***************************************************************************)
(* Properties of the data of a tick, under Spec                            *)
(***************************************************************************)
DataKeys ==
    {"last_activity", "activity_score", "anomaly_detected", "confidence", "daily_count",
     "anomalies", "ml_status", "cross_sensor_patterns"}

(* the tick is in its last await, that of line 576, with line 578 next *)
AtReturn == pc = (IF enable_ml THEN "ml_store_save" ELSE "store_save")

CoordinatorState ==
    <<clock, tz, cfg, phase, analyzer, ml, holiday_mode, snooze_until, last_welfare_status,
      last_notification_time, last_notification_type, recent_events, recent_anomalies,
      recent_ml_anomalies, store, ml_store, pc, tick, sent, welfare_run, saved_state,
      setup_info>>

BothStates(event) == event.old_state # NoState /\ event.new_state # NoState
SameStateValue(event) ==
    BothStates(event) /\ event.old_state[1].state = event.new_state[1].state
SameAttributes(event) ==
    BothStates(event) /\ event.old_state[1].attributes = event.new_state[1].attributes

(* the four cases in which the event is to change nothing *)
ToBeDropped(event) ==
    \/ event.entity_id \notin cfg.monitored_entities
    \/ ~BothStates(event)
    \/ SameStateValue(event) /\ ~cfg.track_attributes
    \/ SameStateValue(event) /\ SameAttributes(event)

(* an event of a monitored entity with the state value kept and the attributes changed *)
AttributeChangeOnly(event) ==
    /\ event.entity_id \in cfg.monitored_entities
    /\ SameStateValue(event)
    /\ ~SameAttributes(event)

ObservationsOf(an, entity_id) ==
    IF entity_id \in PatternIds(an)
    THEN an.patterns[PatternIndex(an, entity_id)].total_observations
    ELSE 0

(* the events of the sequence that the entity has at the instant ts *)
EventsAt(events, entity_id, ts) ==
    Cardinality({i \in DOMAIN events :
                    events[i].entity_id = entity_id /\ events[i].timestamp = ts})

MLDisabled == ~cfg.ml_requested \/ ~cfg.ml_available

MaxConfCalls == 3

ConfEntities == {"sensor.a", "sensor.b"}
(* how far behind or ahead of the clock the caller's timestamp is *)
ConfLeads == {0 - 3 * SECONDS_PER_DAY, 0, 3600}
ConfSteps == {1800, SECONDS_PER_DAY, SECONDS_PER_WEEK}

InitConf ==
    /\ cfg = Config(FALSE, TRUE, FALSE)
    /\ tz = 0
    /\ store = << >>
    /\ ml_store = << >>
    /\ saved_state = << >>
    /\ phase = "running"
    /\ clock = StartClock
    /\ journal = << >>
    /\ analyzer = PatternAnalyzer(SENSITIVITY_THRESHOLDS["medium"], 7)
    /\ ml = NewMLAnalyzer(cfg)
    /\ holiday_mode = FALSE
    /\ snooze_until = NoneDT
    /\ last_welfare_status = None
    /\ last_notification_time = NoneDT
    /\ last_notification_type = None
    /\ recent_events = << >>
    /\ recent_anomalies = << >>
    /\ recent_ml_anomalies = << >>
    /\ pc = "idle"
    /\ tick = IdleTick
    /\ sent = << >>
    /\ welfare_run = NoRun
    /\ handled = NoCall
    /\ setup_info = NoSetup
    /\ budget = 0
    /\ probe = NoProbe

(* analyzer.record_state_change(entity_id, timestamp) with the caller's timestamp *)
RecordStamped(entity_id, lead) ==
    /\ budget < MaxConfCalls
    /\ budget' = budget + 1
    /\ analyzer' = record_state_change(analyzer, entity_id, DateTime(clock + lead, 0))
    /\ journal' = Append(journal, RecordCall(entity_id, DateTime(clock + lead, 0)))
    /\ UNCHANGED <<clock, probe>>
    /\ StoreFrame

(* the clock of get_confidence's datetime.now() moves on *)
AdvanceConf(d) ==
    /\ budget < MaxConfCalls
    /\ budget' = budget + 1
    /\ clock' = clock + d
    /\ UNCHANGED <<analyzer, journal, probe>>
    /\ StoreFrame

NextConf ==
    \/ \E entity_id \in ConfEntities, lead \in ConfLeads : RecordStamped(entity_id, lead)
    \/ \E d \in ConfSteps : AdvanceConf(d)

SpecConf == InitConf /\ [][NextConf]_vars

(***************************************************************************)
(* Properties of get_confidence, under SpecConf                            *)
(***************************************************************************)
Confidence == get_confidence(analyzer, clock)

(* C30: get_confidence() lies in [0, 100] for every pattern set and every   *)
(* current time; for a fixed learning_period_days it never decreases as the *)
(* clock advances or as further observations are recorded; it is 0 when     *)
(* there are no entities.                                                   *)
C30_ConfidenceBoundedAndMonotone ==
    /\ [](RLe(RZero, Confidence) /\ RLe(Confidence, RInt(100)))
    /\ [](analyzer.patterns = << >> => REq(Confidence, RZero))
    /\ [][RLe(Confidence, Confidence')]_vars

(***************************************************************************)
(* Direct calls of _get_interval_index                                     *)
(***************************************************************************)
MaxIntervalCalls == 4

(* the Monday of week 6 at 00:00, 09:00 and 23:30 UTC *)
IntervalStarts ==
    {6 * SECONDS_PER_WEEK, StartClock, 6 * SECONDS_PER_WEEK + 23 * 3600 + 30 * 60}
IntervalOffsets == {0, 3600, 0 - 5 * 3600}
IntervalSteps == {59, 60, 14 * 60, 15 * 60}

(* the variables the calls do not read *)
AnalyzerAlone ==
    /\ cfg = Config(FALSE, TRUE, FALSE)
    /\ store = << >>
    /\ ml_store = << >>
    /\ saved_state = << >>
    /\ phase = "running"
    /\ journal = << >>
    /\ analyzer = PatternAnalyzer(SENSITIVITY_THRESHOLDS["medium"], 7)
    /\ ml = NewMLAnalyzer(cfg)
    /\ holiday_mode = FALSE
    /\ snooze_until = NoneDT
    /\ last_welfare_status = None
    /\ last_notification_time = NoneDT
    /\ last_notification_type = None
    /\ recent_events = << >>
    /\ recent_anomalies = << >>
    /\ recent_ml_anomalies = << >>
    /\ pc = "idle"
    /\ tick = IdleTick
    /\ sent = << >>
    /\ welfare_run = NoRun
    /\ handled = NoCall
    /\ setup_info = NoSetup

IntervalProbe(ts) ==
    [op |-> "_get_interval_index", ts |-> ts, result |-> _get_interval_index(ts)]

InitInterval ==
    /\ AnalyzerAlone
    /\ budget = 0
    /\ clock \in IntervalStarts
    /\ tz \in IntervalOffsets
    /\ probe = IntervalProbe(DateTime(clock, tz))

(* _get_interval_index(timestamp) of the timestamp d seconds after the last one *)
ProbeIntervalIndex(d) ==
    /\ budget < MaxIntervalCalls
    /\ budget' = budget + 1
    /\ clock' = clock + d
    /\ probe' = IntervalProbe(DateTime(clock', tz))
    /\ UNCHANGED <<analyzer, journal>>
    /\ StoreFrame

NextInterval == \E d \in IntervalSteps : ProbeIntervalIndex(d)

SpecInterval == InitInterval /\ [][NextInterval]_vars

(***************************************************************************)
(* Properties of _get_interval_index, under SpecInterval                   *)
(***************************************************************************)
(* timestamp.hour and timestamp.minute *)
HourOf(ts) == (Wall(ts) % SECONDS_PER_DAY) \div 3600
MinuteOf(ts) == ((Wall(ts) % SECONDS_PER_DAY) % 3600) \div 60
SecondOf(ts) == Wall(ts) % 60

(* C31: interval_index(ts) is (hour*60 + minute) integer-divided by 15, lies *)
(* in [0, 95] for every time of day, does not decrease with the minute of    *)
(* the day, and is the same for every minute of one 15-minute slot: for t on *)
(* a 15-minute boundary it is the same at t + 14 min and differs at          *)
(* t + 15 min.                                                               *)
C31_IntervalIndexOfQuarterHour ==
    /\ [](/\ probe.result = (HourOf(probe.ts) * 60 + MinuteOf(probe.ts)) \div 15
          /\ probe.result \in 0..95)
    /\ [][/\ DateOf(probe'.ts) = DateOf(probe.ts) => probe'.result >= probe.result
          /\ (MinuteOf(probe.ts) % 15 = 0 /\ SecondOf(probe.ts) = 0)
             => /\ clock' = clock + 14 * 60 => probe'.result = probe.result
                /\ clock' = clock + 15 * 60 => probe'.result # probe.result]_vars

(* the index was taken on a 15-minute boundary and again 15 minutes later,  *)
(* after midnight, where it is 0 again                                      *)
C31_Witness ==
    /\ probe.op = "_get_interval_index"
    /\ budget > 0
    /\ HourOf(probe.ts) = 0
    /\ MinuteOf(probe.ts) = 0
    /\ SecondOf(probe.ts) = 0
    /\ probe.result = 0
    /\ DateOf(probe.ts) > DateOf(DateTime(6 * SECONDS_PER_WEEK + 23 * 3600 + 30 * 60, tz))

(***************************************************************************)
(* Properties of the live count of the current interval, under SpecStore   *)
(***************************************************************************)
(* the recorded events of the entity in the 15-minute slot that holds the clock *)
EventsInSlotOfNow(entity_id) ==
    Cardinality({i \in DOMAIN journal :
                    /\ journal[i].entity_id = entity_id
                    /\ journal[i].timestamp.t \div (MINUTES_PER_INTERVAL * 60)
                       = clock \div (MINUTES_PER_INTERVAL * 60)})

(* the count check_for_anomalies takes for the entity, lines 371-378 *)
DetectorCount(entity_id) == DictGet(get_current_interval_activity(analyzer, clock), entity_id)

(* C32: the current-interval count that get_entity_status uses and reports  *)
(* for an entity is the number of events recorded for that entity in the    *)
(* (weekday, interval) slot that contains the current time, and so the      *)
(* count check_for_anomalies uses at the same time.                         *)
C32_StatusCountIsLiveCount ==
    \A k \in DOMAIN analyzer.patterns :
        LET entry == EntityStatusOf(analyzer, analyzer.patterns[k], clock)
        IN  /\ entry.current_interval_count = EventsInSlotOfNow(entry.entity_id)
            /\ entry.current_interval_count = DetectorCount(entry.entity_id)

(***************************************************************************)
(* Properties of the z-score of get_entity_status, under SpecDet           *)
(***************************************************************************)
StatusProbed == probe.op = "get_entity_status"

(* the pattern of the analyzer for the entity *)
PatternOf(entity_id) == analyzer.patterns[PatternIndex(analyzer, entity_id)]

(* C33: for the same actual count, mean and std_dev, get_entity_status      *)
(* gives an entity the z-score, and so the severity band, that the          *)
(* statistical detector computes, also when std_dev is 0.                   *)
C33_StatusZIsDetectorZ ==
    StatusProbed =>
        \A k \in DOMAIN probe.result :
            LET entry == probe.result[k]
                expected == get_expected_activity(PatternOf(entry.entity_id), NowUtc(clock))
                z_score == DetectorZ(analyzer, expected, entry.current_interval_count)
            IN  ~(expected.std_sq.n = 0 /\ expected.mean.n = 0)
                => /\ entry.z_score = z_score
                   /\ entry.severity = _get_severity(z_score)

(***************************************************************************)
(* Properties of the slot an ingested event is recorded in, under Spec     *)
(***************************************************************************)
(* the observations in the bucket that the readers consult at the instant now *)
CountInBucketOf(an, entity_id, now) ==
    IF entity_id \in PatternIds(an)
    THEN BucketAt(an.patterns[PatternIndex(an, entity_id)], NowUtc(now)).count
    ELSE 0

(* C34: an event ingested by the coordinator at the instant t is recorded   *)
(* into the (weekday, interval) bucket, the live current-interval slot and  *)
(* the daily-count date that detection and the elder-care metrics consult   *)
(* when they are evaluated at the same instant t, for every time-zone       *)
(* offset of the host clock.                                                *)
C34_RecordedWhereReadersLook ==
    [][\A event \in BusEvents :
           (HandleStateChanged(event) /\ Outcome(event) = "recorded" /\ ~is_snoozed)
           => /\ CountInBucketOf(analyzer', event.entity_id, clock)
                  = CountInBucketOf(analyzer, event.entity_id, clock) + 1
              /\ DictGet(get_current_interval_activity(analyzer', clock), event.entity_id) >= 1
              /\ get_daily_count(analyzer', event.entity_id, clock) >= 1]_vars

(***************************************************************************)
(* A coordinator that is snoozed, receives events and ticks                *)
(***************************************************************************)
(* the calls of a behaviour of SpecSnooze: its count of calls starts below 0 *)
MaxSnoozeCalls == 3

(* the keys async_snooze is called with: off, one hour, and one it does not know *)
SnoozeCallKeys == SnoozeKeys \cup {"1_week"}

InitSnooze ==
    /\ AnalyzerAlone
    /\ budget = MaxCalls - MaxSnoozeCalls
    /\ clock = StartClock
    /\ tz \in {0, 3600}
    /\ probe = NoProbe

NextSnooze ==
    \/ \E duration_key \in SnoozeCallKeys : Snooze(duration_key)
    \/ ClearSnooze
    \/ \E event \in BusEvents : HandleStateChanged(event)
    \/ TickStart
    \/ TickResume
    \/ \E d \in ClockSteps : Advance(d)

SpecSnooze == InitSnooze /\ [][NextSnooze]_vars

(***************************************************************************)
(* Properties of the snooze, under SpecSnooze                              *)
(***************************************************************************)
(* the clock is before the instant the snooze was set to end at *)
BeforeSnoozeEnd == snooze_until # NoneDT /\ clock < snooze_until.t

(* C35: after async_snooze(k) with a key of positive duration d the         *)
(* coordinator is snoozed at every time before snooze_until = call time + d *)
(* and at no time from snooze_until on, with no further call: the first     *)
(* accepted event at or after snooze_until updates the Pattern Store again  *)
(* and the first tick at or after it runs detection again; async_snooze     *)
(* with the off key or an unknown key, and async_clear_snooze, end the      *)
(* snooze at once.                                                          *)
C35_SnoozeEndsAtSnoozeUntil ==
    /\ [](is_snoozed <=> BeforeSnoozeEnd)
    /\ [][/\ \A duration_key \in SnoozeCallKeys :
                Snooze(duration_key)
                => IF duration_key \in DOMAIN SNOOZE_DURATIONS
                      /\ SNOOZE_DURATIONS[duration_key] > 0
                   THEN /\ snooze_until' = DateTime(clock + SNOOZE_DURATIONS[duration_key], tz)
                        /\ is_snoozed'
                   ELSE snooze_until' = NoneDT /\ ~is_snoozed'
          /\ ClearSnooze => snooze_until' = NoneDT /\ ~is_snoozed'
          /\ snooze_until' # snooze_until
             => ClearSnooze \/ \E duration_key \in SnoozeCallKeys : Snooze(duration_key)
          /\ \A event \in BusEvents :
                (HandleStateChanged(event) /\ Outcome(event) = "recorded")
                => ObservationsOf(analyzer', event.entity_id)
                   = ObservationsOf(analyzer, event.entity_id)
                     + (IF BeforeSnoozeEnd THEN 0 ELSE 1)
          /\ TickStart => (tick'.ran_stat <=> ~BeforeSnoozeEnd)]_vars

(* a snooze of one hour has run out at snooze_until itself: an event of     *)
(* that instant is in the Pattern Store and the tick of that instant ran    *)
(* the detection                                                            *)
C35_Witness ==
    /\ snooze_until # NoneDT
    /\ clock = snooze_until.t
    /\ pc = "store_save"
    /\ tick.ran_stat
    /\ \E k \in DOMAIN analyzer.patterns :
          analyzer.patterns[k].last_observation = now_local

(***************************************************************************)
(* A snoozed coordinator that is shut down and set up again                *)
(***************************************************************************)
NextRestart ==
    \/ \E duration_key \in SnoozeCallKeys : Snooze(duration_key)
    \/ ClearSnooze
    \/ \E event \in BusEvents : HandleStateChanged(event)
    \/ TickStart
    \/ TickResume
    \/ \E d \in ClockSteps : Advance(d)
    \/ AsyncShutdown
    \/ Restart
    \/ AsyncSetup

SpecRestart == InitSnooze /\ [][NextRestart]_vars

(* the snooze_until of the stored document: its string, and the instant it *)
(* names, -1 when the document has none                                    *)
PersistedSnooze ==
    IF store = << >> \/ "coordinator" \notin DOMAIN store[1] THEN NoneDT
    ELSE store[1].coordinator.snooze_until
PersistedSnoozeEnd ==
    IF PersistedSnooze = NoneDT THEN 0 - 1
    ELSE PersistedSnooze.date * SECONDS_PER_DAY + PersistedSnooze.time
         - PersistedSnooze.offset

(* C36: on load a persisted snooze_until is restored if and only if it is   *)
(* still in the future at load time, and an expired one is discarded: a     *)
(* coordinator restarted after its snooze has elapsed is not snoozed, one   *)
(* restarted before that is snoozed until the snooze_until that was saved.  *)
C36_SnoozeRestoredIfInFuture ==
    [][(AsyncSetup /\ PersistedSnooze # NoneDT)
       => IF PersistedSnoozeEnd > clock
          THEN /\ snooze_until' # NoneDT
               /\ snooze_until'.t = PersistedSnoozeEnd
               /\ Wall(snooze_until') = PersistedSnooze.date * SECONDS_PER_DAY
                                        + PersistedSnooze.time
               /\ is_snoozed'
          ELSE snooze_until' = NoneDT /\ ~is_snoozed']_vars

(* a coordinator set up again at the end of the snooze it had saved: the *)
(* document still holds the snooze, the coordinator is not snoozed       *)
C36_Witness ==
    /\ phase = "running"
    /\ setup_info.loaded
    /\ PersistedSnooze # NoneDT
    /\ PersistedSnoozeEnd <= clock
    /\ snooze_until = NoneDT

(* a coordinator set up again before the end of the snooze it had saved, *)
(* at the end of that snooze                                             *)
C36_StillSnoozedReached ==
    /\ phase = "running"
    /\ setup_info.loaded
    /\ snooze_until # NoneDT
    /\ clock = snooze_until.t

(***************************************************************************)
(* Stability of is_trained, under SpecML                                   *)
(***************************************************************************)
(* C37: with the ML runtime available, once samples_processed has reached   *)
(* MIN_SAMPLES_FOR_ML is_trained stays true after every later record_event, *)
(* prune_old_events, train (successful or not) and retrain check of a tick, *)
(* and check_anomaly returns None in every state where is_trained is false. *)
C37_TrainedStaysTrained ==
    /\ [](~is_trained(ml)
          => \A entity_id \in MLEntities : \A outlier \in BOOLEAN :
                check_anomaly(ml, StateChangeEvent(entity_id, now_local, "off", "on"),
                              outlier) = << >>)
    /\ [][is_trained(ml) => is_trained(ml')]_vars

(* a trained analyzer whose log the retrain check of the tick has emptied *)
C37_Witness ==
    /\ setup_info.ticked
    /\ is_trained(ml)
    /\ ml.events = << >>
    /\ ml.samples_processed > MIN_SAMPLES_FOR_ML

(***************************************************************************)
(* The counters of a cross-sensor pattern, under SpecCross                 *)
(***************************************************************************)
PatternCounters == {"co_occurrence_count", "a_before_b_count", "b_before_a_count"}

(* C38: for every cross-sensor pattern built by record_event, in every      *)
(* reachable state, co_occurrence_count = a_before_b_count +                *)
(* b_before_a_count, and none of the three counters ever decreases.         *)
C38_CoOccurrenceIsSumOfOrderings ==
    /\ [](\A i \in DOMAIN ml.cross_sensor_patterns :
             ml.cross_sensor_patterns[i].co_occurrence_count
             = ml.cross_sensor_patterns[i].a_before_b_count
               + ml.cross_sensor_patterns[i].b_before_a_count)
    /\ [][\A x \in CrossEntities, y \in CrossEntities : \A counter \in PatternCounters :
             CounterOf(ml', x, y, counter) >= CounterOf(ml, x, y, counter)]_vars

(* a pattern with sensor.c, which no history holds, that the calls of this *)
(* run have counted once in each order                                     *)
C38_Witness ==
    \E x \in CrossEntities :
        /\ CounterOf(ml, x, "sensor.c", "a_before_b_count") = 1
        /\ CounterOf(ml, x, "sensor.c", "b_before_a_count") = 1
        /\ CounterOf(ml, x, "sensor.c", "co_occurrence_count") = 2

(***************************************************************************)
(* The retrain check of the tick over several retrain periods              *)
(***************************************************************************)
(* MIN_SAMPLES_FOR_ML events on the Monday of week 3 and as many on the *)
(* Monday of week 5                                                     *)
RetrainHistory ==
    MLRun(MLRun(NewMLAnalyzer(Config(TRUE, FALSE, TRUE)),
                [old |-> 0, week |-> 3, n |-> MIN_SAMPLES_FOR_ML], 1, MIN_SAMPLES_FOR_ML),
          [old |-> 0, week |-> 5, n |-> MIN_SAMPLES_FOR_ML], 1, MIN_SAMPLES_FOR_ML)

(* the retrain period, and a day more *)
RetrainSteps == {14 * SECONDS_PER_DAY, 15 * SECONDS_PER_DAY}

InitRetrain ==
    /\ cfg = Config(TRUE, FALSE, TRUE)
    /\ tz = 0
    /\ store = << >>
    /\ ml_store = << >>
    /\ saved_state = << >>
    /\ clock = StartClock
    /\ phase = "running"
    /\ analyzer = NewAnalyzer
    /\ ml = RetrainHistory
    /\ holiday_mode = FALSE
    /\ snooze_until = NoneDT
    /\ last_welfare_status = None
    /\ last_notification_time = NoneDT
    /\ last_notification_type = None
    /\ recent_events = << >>
    /\ recent_anomalies = << >>
    /\ recent_ml_anomalies = << >>
    /\ pc = "idle"
    /\ tick = IdleTick
    /\ sent = << >>
    /\ welfare_run = NoRun
    /\ handled = NoCall
    /\ setup_info = NoSetup
    /\ budget = 0
    /\ probe = NoProbe
    /\ journal = << >>

NextRetrain ==
    \/ \E d \in RetrainSteps : AdvanceML(d)
    \/ \E entity_id \in MLEntities : RecordEvent(entity_id)
    \/ TickStart
    \/ TickResume

SpecRetrain == InitRetrain /\ [][NextRetrain]_vars

RetrainPeriod == cfg.retrain_period_days * SECONDS_PER_DAY

(* the retrain check of this tick finds the retrain due, and its train() *)
(* succeeds or fails on the events left by the prune                     *)
RetrainSucceeds == TickStart /\ RetrainDue /\ Len(Retained) >= MIN_SAMPLES_FOR_ML
RetrainFails == TickStart /\ RetrainDue /\ Len(Retained) < MIN_SAMPLES_FOR_ML

(* C39: between two successful retrains performed by the retrain check of   *)
(* the tick more than retrain_period_days elapse (every successful train()  *)
(* stamps last_warmup, which in these behaviours is the time of the         *)
(* previous retrain); a retrain attempt that fails because fewer than       *)
(* MIN_SAMPLES_FOR_ML events remain after pruning leaves last_trained,      *)
(* samples_processed and the model unchanged.                               *)
C39_RetrainsMoreThanAPeriodApart ==
    [][/\ (RetrainSucceeds \/ (TickStart /\ ml'.last_warmup # ml.last_warmup))
          => /\ ml'.last_warmup = NowUtc(clock)
             /\ ml.last_warmup # NoneDT => clock - ml.last_warmup.t > RetrainPeriod
       /\ RetrainFails
          => /\ last_trained(ml') = last_trained(ml)
             /\ ml'.last_warmup = ml.last_warmup
             /\ ml'.samples_processed = ml.samples_processed
             /\ ml'.model = ml.model]_vars

(* a retrain has succeeded fifteen days into the run, and the next one, due *)
(* fifteen days later, has failed on a log that its prune had emptied      *)
C39_Witness ==
    /\ ml.last_warmup # NoneDT
    /\ ml.last_warmup.t = StartClock + 15 * SECONDS_PER_DAY
    /\ clock = StartClock + 30 * SECONDS_PER_DAY
    /\ setup_info.ticked
    /\ pc = "idle"
    /\ ml.events = << >>
    /\ ml.samples_processed = MIN_SAMPLES_FOR_ML

(***************************************************************************)
(* The statuses of the entities of a recorded store, under SpecStore       *)
(***************************************************************************)
(* the store, and its copy after a save and a load when one was made *)
RecordedStores ==
    {analyzer} \cup (IF probe.op = "round_trip" THEN {probe.result} ELSE {})

(* C40: in every Pattern Store state reached through record operations and  *)
(* save/load round trips the status of each entity returned by              *)
(* get_entity_status is normal or concern, with a z-score of 0 or 3.0, and  *)
(* never attention or alert, so that get_welfare_status is alert only when  *)
(* the time-since-activity status is alert.                                 *)
C40_EntityStatusNormalOrConcern ==
    \A an \in RecordedStores :
        LET statuses == get_entity_status(an, clock)
        IN  /\ \A i \in DOMAIN statuses :
                 /\ statuses[i].status \in {"normal", "concern"}
                 /\ statuses[i].z_score \in {ZOf(RZero), ZOf(RInt(3))}
                 /\ statuses[i].status = "concern" <=> statuses[i].z_score = ZOf(RInt(3))
            /\ StatusCounts(statuses).alert = 0
            /\ get_welfare_status(an, clock).status = WELFARE_ALERT
               => get_time_since_activity_context(an, clock).status = "alert"

(* a store with calls of this run in which an entity deviates from a mean *)
(* without variance: its status is concern, and so is the welfare status  *)
C40_Witness ==
    /\ budget > 0
    /\ \E i \in DOMAIN get_entity_status(analyzer, clock) :
          /\ get_entity_status(analyzer, clock)[i].status = "concern"
          /\ get_entity_status(analyzer, clock)[i].z_score = ZOf(RInt(3))
    /\ get_welfare_status(analyzer, clock).status = WELFARE_CONCERN

====
